---------------------------- MODULE Spec2Model ----------------------------
(***************************************************************************)
(* Hierarchical bitmap allocator of equation_defs (src/src/bitmap.rs):     *)
(* the leaf bit-vector BitAlloc64, the cascades BitAllocCascade8 and       *)
(* SegmentBitAllocCascade, and the contiguous-range search built on next.  *)
(*                                                                         *)
(* A machine word is modelled as the set of its 1-bits (bit i = 1 means    *)
(* index i is free).  The leaf width and the fixed fan-out are scaled down *)
(* (LeafCap for u64::BITS, Fan8 for the 8 of BitAllocCascade8) so that     *)
(* every bit pattern of a three-level tree is explored; the code is        *)
(* generic in T::CAP and none of its arithmetic depends on the values.     *)
(***************************************************************************)
EXTENDS Integers, FiniteSets, Sequences, TLC

\* ------------------------------------------------------------------ sizes

\* BitAlloc64::CAP (u64::BITS in the source), scaled down.
LeafCap == 2

\* fan-out of BitAllocCascade8 (8 in the source), scaled down.
Fan8 == 2

\* const SIZE of SegmentBitAllocCascade<T, SIZE>.
SIZE == 2

\* largest size argument given to alloc_contiguous / dealloc_contiguous.
MaxSize == 3

\* largest align_log2 argument given to alloc_contiguous.
MaxAlignLog2 == 4

\* BitAllocCascade8<BitAlloc64>::CAP (BitAlloc512 in the source).
C8Cap == LeafCap * Fan8

\* SegmentBitAllocCascade<BitAlloc512, SIZE>::CAP.
SegCap == C8Cap * SIZE

\* Option::None for Option<usize> results.
None == -1

\* 1 << n
Pow2(n) == 2 ^ n

SetMin(S) == CHOOSE x \in S : \A y \in S : x <= y

\* shape of what an operation hands back: the allocator after the call, the
\* Option<usize> result, the bool result, and the panic it died with ("" = none).
Ret(st, res, ok, panic) == [st |-> st, res |-> res, ok |-> ok, panic |-> panic]

\* -------------------------------------------------------------- BitAlloc64

LeafDefault == {}

LeafTest(w, key) == key \in w

\* mutant of LeafIsEmpty: the test is inverted.
LeafIsEmptyInverted(w) == w # {}

LeafIsEmpty(w) == w = {}

\* u64::trailing_zeros
TrailingZeros(w) == IF w = {} THEN LeafCap ELSE SetMin(w)

LeafAlloc(w) ==
    LET i == TrailingZeros(w) IN
    IF i < LeafCap THEN Ret(w \ {i}, i, TRUE, "")
    ELSE Ret(w, None, FALSE, "")

\* mutant of LeafDealloc: reports success whatever the bit was.
LeafDeallocAlwaysTrue(w, key) == Ret(w \cup {key}, None, TRUE, "")

LeafDealloc(w, key) ==
    LET success == ~LeafTest(w, key) IN
    Ret(w \cup {key}, None, success, "")

\* bit_field's get_bits / set_bits assert start < BIT_LENGTH, end <= BIT_LENGTH, start < end.
BitRangeOk(s, e) == s < LeafCap /\ e <= LeafCap /\ s < e

LeafInsert(w, s, e) ==
    IF ~BitRangeOk(s, e) THEN Ret(w, None, FALSE, "assert")
    ELSE Ret(w \cup (s .. e - 1), None, TRUE, "")

LeafRemove(w, s, e) ==
    IF ~BitRangeOk(s, e) THEN Ret(w, None, FALSE, "assert")
    ELSE Ret(w \ (s .. e - 1), None, TRUE, "")

LeafDeallocContiguous(w, base, size) ==
    IF ~BitRangeOk(base, base + size) THEN Ret(w, None, FALSE, "assert")
    ELSE IF w \cap (base .. base + size - 1) = {}
         THEN Ret(LeafInsert(w, base, base + size).st, None, TRUE, "")
         ELSE Ret(w, None, FALSE, "")

LeafNext(w, key) ==
    LET hits == {i \in key .. LeafCap - 1 : LeafTest(w, i)} IN
    IF hits = {} THEN None ELSE SetMin(hits)

\* bit_field set_bit / Bitmap::set on a summary bitmap.
SetBit(bs, i, v) == IF v THEN bs \cup {i} ELSE bs \ {i}

\* -------------------------------------------- BitAllocCascade8<BitAlloc64>

C8Default == [bitset |-> {}, sub |-> [i \in 0 .. Fan8 - 1 |-> LeafDefault]]

C8IsEmpty(c) == c.bitset = {}

C8Test(c, key) == LeafTest(c.sub[key \div LeafCap], key % LeafCap)

\* mutant of C8Alloc: the child's allocation is not written back.
C8AllocNoWriteBack(c) ==
    IF ~C8IsEmpty(c) THEN
        LET i == SetMin(c.bitset)
            r == LeafAlloc(c.sub[i])
        IN  IF r.res = None THEN Ret(c, None, FALSE, "unwrap")
            ELSE Ret([bitset |-> SetBit(c.bitset, i, ~LeafIsEmpty(r.st)),
                      sub |-> c.sub],
                     r.res + i * LeafCap, TRUE, "")
    ELSE Ret(c, None, FALSE, "")

C8Alloc(c) ==
    IF ~C8IsEmpty(c) THEN
        LET i == SetMin(c.bitset)
            r == LeafAlloc(c.sub[i])
        IN  IF r.res = None THEN Ret(c, None, FALSE, "unwrap")
            ELSE Ret([bitset |-> SetBit(c.bitset, i, ~LeafIsEmpty(r.st)),
                      sub |-> [c.sub EXCEPT ![i] = r.st]],
                     r.res + i * LeafCap, TRUE, "")
    ELSE Ret(c, None, FALSE, "")

\* mutant of C8Dealloc: the summary bit of the child is not set.
C8DeallocNoSummary(c, key) ==
    LET i == key \div LeafCap
        r == LeafDealloc(c.sub[i], key % LeafCap)
    IN  Ret([bitset |-> c.bitset,
             sub |-> [c.sub EXCEPT ![i] = r.st]],
            None, r.ok, "")

C8Dealloc(c, key) ==
    LET i == key \div LeafCap
        r == LeafDealloc(c.sub[i], key % LeafCap)
    IN  Ret([bitset |-> SetBit(c.bitset, i, TRUE),
             sub |-> [c.sub EXCEPT ![i] = r.st]],
            None, r.ok, "")

\* the body of the loop shared by for_range and dealloc_contiguous: the part
\* begin..end of the range start..end that falls into child i.
SubBegin(start, i, tcap) == IF start \div tcap = i THEN start % tcap ELSE 0

\* mutant of SubEnd: end % T::CAP also for a child the range runs through.
SubEndAlwaysMod(end, i, tcap) == end % tcap

SubEnd(end, i, tcap) == IF end \div tcap = i THEN end % tcap ELSE tcap

RECURSIVE C8ForRangeLoop(_, _, _, _, _, _)
C8ForRangeLoop(c, i, hi, start, end, insert) ==
    IF i > hi THEN Ret(c, None, TRUE, "")
    ELSE LET b == SubBegin(start, i, LeafCap)
             e == SubEnd(end, i, LeafCap)
             r == IF insert THEN LeafInsert(c.sub[i], b, e)
                  ELSE LeafRemove(c.sub[i], b, e)
         IN  IF r.panic # "" THEN Ret(c, None, FALSE, r.panic)
             ELSE C8ForRangeLoop(
                      [bitset |-> SetBit(c.bitset, i, ~LeafIsEmpty(r.st)),
                       sub |-> [c.sub EXCEPT ![i] = r.st]],
                      i + 1, hi, start, end, insert)

C8ForRange(c, start, end, insert) ==
    IF ~(start <= end) \/ ~(end <= C8Cap) THEN Ret(c, None, FALSE, "assert")
    ELSE IF end = 0 THEN Ret(c, None, FALSE, "overflow")
    ELSE C8ForRangeLoop(c, start \div LeafCap, (end - 1) \div LeafCap,
                        start, end, insert)

C8Insert(c, s, e) == C8ForRange(c, s, e, TRUE)

C8Remove(c, s, e) == C8ForRange(c, s, e, FALSE)

RECURSIVE C8DeallocLoop(_, _, _, _, _, _)
C8DeallocLoop(c, i, hi, start, end, success) ==
    IF i > hi THEN Ret(c, None, success, "")
    ELSE LET b == SubBegin(start, i, LeafCap)
             e == SubEnd(end, i, LeafCap)
             \* success && ...: the child is only called while success holds
             r == IF success THEN LeafDeallocContiguous(c.sub[i], b, e - b)
                  ELSE Ret(c.sub[i], None, FALSE, "")
         IN  IF r.panic # "" THEN Ret(c, None, FALSE, r.panic)
             ELSE C8DeallocLoop(
                      [bitset |-> SetBit(c.bitset, i, ~LeafIsEmpty(r.st)),
                       sub |-> [c.sub EXCEPT ![i] = r.st]],
                      i + 1, hi, start, end, success /\ r.ok)

C8DeallocContiguous(c, base, size) ==
    LET start == base
        end == base + size
    IN  IF end > C8Cap THEN Ret(c, None, FALSE, "")
        ELSE IF end = 0 THEN Ret(c, None, FALSE, "overflow")
        ELSE C8DeallocLoop(c, start \div LeafCap, (end - 1) \div LeafCap,
                           start, end, TRUE)

\* mutant of C8NextIn: key's offset is kept for the later children.
C8NextInKeepsOffset(c, key, idx, i) == LeafNext(c.sub[i], key - LeafCap * idx)

C8NextIn(c, key, idx, i) ==
    LeafNext(c.sub[i], IF i = idx THEN key - LeafCap * idx ELSE 0)

C8Next(c, key) ==
    LET idx == key \div LeafCap
        hits == {i \in idx .. Fan8 - 1 :
                    i \in c.bitset /\ C8NextIn(c, key, idx, i) # None}
    IN  IF hits = {} THEN None
        ELSE LET i == SetMin(hits) IN C8NextIn(c, key, idx, i) + LeafCap * i

\* -------------------------------------------- SegmentBitAllocCascade<BitAlloc512, SIZE>

SegDefault == [bitset |-> {}, sub_seg |-> [i \in 0 .. SIZE - 1 |-> C8Default]]

SegIsEmpty(c) == c.bitset = {}

SegTest(c, key) == C8Test(c.sub_seg[key \div C8Cap], key % C8Cap)

\* mutant of SegAlloc: the last non-empty child is taken, not the first.
SegAllocHighest(c) ==
    IF ~SegIsEmpty(c) THEN
        LET i == CHOOSE x \in c.bitset : \A y \in c.bitset : y <= x
            r == C8Alloc(c.sub_seg[i])
        IN  IF r.res = None THEN Ret(c, None, FALSE, "unwrap")
            ELSE Ret([bitset |-> SetBit(c.bitset, i, ~C8IsEmpty(r.st)),
                      sub_seg |-> [c.sub_seg EXCEPT ![i] = r.st]],
                     r.res + i * C8Cap, TRUE, "")
    ELSE Ret(c, None, FALSE, "")

SegAlloc(c) ==
    IF ~SegIsEmpty(c) THEN
        LET i == SetMin(c.bitset)
            r == C8Alloc(c.sub_seg[i])
        IN  IF r.res = None THEN Ret(c, None, FALSE, "unwrap")
            ELSE Ret([bitset |-> SetBit(c.bitset, i, ~C8IsEmpty(r.st)),
                      sub_seg |-> [c.sub_seg EXCEPT ![i] = r.st]],
                     r.res + i * C8Cap, TRUE, "")
    ELSE Ret(c, None, FALSE, "")

SegDealloc(c, key) ==
    LET i == key \div C8Cap
        r == C8Dealloc(c.sub_seg[i], key % C8Cap)
    IN  Ret([bitset |-> SetBit(c.bitset, i, TRUE),
             sub_seg |-> [c.sub_seg EXCEPT ![i] = r.st]],
            None, r.ok, "")

RECURSIVE SegForRangeLoop(_, _, _, _, _, _)
SegForRangeLoop(c, i, hi, start, end, insert) ==
    IF i > hi THEN Ret(c, None, TRUE, "")
    ELSE LET b == SubBegin(start, i, C8Cap)
             e == SubEnd(end, i, C8Cap)
             r == IF insert THEN C8Insert(c.sub_seg[i], b, e)
                  ELSE C8Remove(c.sub_seg[i], b, e)
         IN  IF r.panic # "" THEN Ret(c, None, FALSE, r.panic)
             ELSE SegForRangeLoop(
                      [bitset |-> SetBit(c.bitset, i, ~C8IsEmpty(r.st)),
                       sub_seg |-> [c.sub_seg EXCEPT ![i] = r.st]],
                      i + 1, hi, start, end, insert)

\* mutant of SegForRange: a range past the capacity is cut to it, and a
\* range with start > end does nothing.
SegForRangeClamps(c, start, end, insert) ==
    IF ~(start <= end) \/ start >= SegCap THEN Ret(c, None, TRUE, "")
    ELSE IF end = 0 THEN Ret(c, None, FALSE, "overflow")
    ELSE SegForRangeLoop(c, start \div C8Cap,
                         (IF end <= SegCap THEN end - 1 ELSE SegCap - 1)
                             \div C8Cap,
                         start, IF end <= SegCap THEN end ELSE SegCap,
                         insert)

SegForRange(c, start, end, insert) ==
    IF ~(start <= end) \/ ~(end <= SegCap) THEN Ret(c, None, FALSE, "assert")
    ELSE IF end = 0 THEN Ret(c, None, FALSE, "overflow")
    ELSE SegForRangeLoop(c, start \div C8Cap, (end - 1) \div C8Cap,
                        start, end, insert)

SegInsert(c, s, e) == SegForRange(c, s, e, TRUE)

SegRemove(c, s, e) == SegForRange(c, s, e, FALSE)

RECURSIVE SegDeallocLoop(_, _, _, _, _, _)
SegDeallocLoop(c, i, hi, start, end, success) ==
    IF i > hi THEN Ret(c, None, success, "")
    ELSE LET b == SubBegin(start, i, C8Cap)
             e == SubEnd(end, i, C8Cap)
             \* success && ...: the child is only called while success holds
             r == IF success THEN C8DeallocContiguous(c.sub_seg[i], b, e - b)
                  ELSE Ret(c.sub_seg[i], None, FALSE, "")
         IN  IF r.panic # "" THEN Ret(c, None, FALSE, r.panic)
             ELSE SegDeallocLoop(
                      [bitset |-> SetBit(c.bitset, i, ~C8IsEmpty(r.st)),
                       sub_seg |-> [c.sub_seg EXCEPT ![i] = r.st]],
                      i + 1, hi, start, end, success /\ r.ok)

\* mutant of SegDeallocContiguous: a range ending at CAP is rejected.
SegDeallocContiguousRejectsEnd(c, base, size) ==
    LET start == base
        end == base + size
    IN  IF end >= SegCap THEN Ret(c, None, FALSE, "")
        ELSE IF end = 0 THEN Ret(c, None, FALSE, "overflow")
        ELSE SegDeallocLoop(c, start \div C8Cap, (end - 1) \div C8Cap,
                           start, end, TRUE)

SegDeallocContiguous(c, base, size) ==
    LET start == base
        end == base + size
    IN  IF end > SegCap THEN Ret(c, None, FALSE, "")
        ELSE IF end = 0 THEN Ret(c, None, FALSE, "overflow")
        ELSE SegDeallocLoop(c, start \div C8Cap, (end - 1) \div C8Cap,
                           start, end, TRUE)

SegNextIn(c, key, idx, i) ==
    C8Next(c.sub_seg[i], IF i = idx THEN key - C8Cap * idx ELSE 0)

SegNext(c, key) ==
    LET idx == key \div C8Cap
        hits == {i \in idx .. SIZE - 1 :
                    i \in c.bitset /\ SegNextIn(c, key, idx, i) # None}
    IN  IF hits = {} THEN None
        ELSE LET i == SetMin(hits) IN SegNextIn(c, key, idx, i) + C8Cap * i

\* ------------------------------------------------- the BitAlloc trait
\* The three implementors of BitAlloc; lv names the type of the allocator.

Levels == {"leaf", "c8", "seg"}

Cap(lv) == CASE lv = "leaf" -> LeafCap [] lv = "c8" -> C8Cap [] lv = "seg" -> SegCap

BaDefault(lv) ==
    CASE lv = "leaf" -> LeafDefault [] lv = "c8" -> C8Default [] lv = "seg" -> SegDefault

BaIsEmpty(lv, b) ==
    CASE lv = "leaf" -> LeafIsEmpty(b) [] lv = "c8" -> C8IsEmpty(b) [] lv = "seg" -> SegIsEmpty(b)

BaTest(lv, b, key) ==
    CASE lv = "leaf" -> LeafTest(b, key) [] lv = "c8" -> C8Test(b, key)
      [] lv = "seg" -> SegTest(b, key)

BaNext(lv, b, key) ==
    CASE lv = "leaf" -> LeafNext(b, key) [] lv = "c8" -> C8Next(b, key)
      [] lv = "seg" -> SegNext(b, key)

BaAlloc(lv, b) ==
    CASE lv = "leaf" -> LeafAlloc(b) [] lv = "c8" -> C8Alloc(b) [] lv = "seg" -> SegAlloc(b)

BaDealloc(lv, b, key) ==
    CASE lv = "leaf" -> LeafDealloc(b, key) [] lv = "c8" -> C8Dealloc(b, key)
      [] lv = "seg" -> SegDealloc(b, key)

BaInsert(lv, b, s, e) ==
    CASE lv = "leaf" -> LeafInsert(b, s, e) [] lv = "c8" -> C8Insert(b, s, e)
      [] lv = "seg" -> SegInsert(b, s, e)

BaRemove(lv, b, s, e) ==
    CASE lv = "leaf" -> LeafRemove(b, s, e) [] lv = "c8" -> C8Remove(b, s, e)
      [] lv = "seg" -> SegRemove(b, s, e)

BaDeallocContiguous(lv, b, base, size) ==
    CASE lv = "leaf" -> LeafDeallocContiguous(b, base, size)
      [] lv = "c8" -> C8DeallocContiguous(b, base, size)
      [] lv = "seg" -> SegDeallocContiguous(b, base, size)

\* ------------------------------------------------ contiguous-range search

\* (base + ((1 << align_log2) - 1)) & !((1 << align_log2) - 1)
AlignUpLog2(base, align_log2) ==
    LET x == base + (Pow2(align_log2) - 1) IN x - (x % Pow2(align_log2))

\* mutant of IsAlignedLog2: every base passes.
IsAlignedLog2Always(base, align_log2) == TRUE

\* (base & ((1 << align_log2) - 1)) == 0
IsAlignedLog2(base, align_log2) == base % Pow2(align_log2) = 0

\* mutant of GapBase: the search resumes at the aligned position at or
\* below next.
GapBaseAlignsDown(next, align_log2) ==
    (next \div Pow2(align_log2)) * Pow2(align_log2)

\* mutant of GapBase: the search resumes at next without aligning it.
GapBaseUnaligned(next, align_log2) == next

\* base after a gap: the next aligned position after next - 1.
GapBase(next, align_log2) ==
    (((next - 1) \div Pow2(align_log2)) + 1) * Pow2(align_log2)

\* the while loop of find_contiguous.
RECURSIVE FindLoop(_, _, _, _, _, _, _)
FindLoop(lv, b, capacity, size, align_log2, base, offset) ==
    IF ~(offset < capacity) THEN None
    ELSE LET next == BaNext(lv, b, offset) IN
         IF next = None THEN None
         ELSE IF next # offset
              THEN FindLoop(lv, b, capacity, size, align_log2,
                            GapBase(next, align_log2), GapBase(next, align_log2))
         ELSE IF (offset + 1) - base = size THEN base
         ELSE FindLoop(lv, b, capacity, size, align_log2, base, offset + 1)

FindContiguous(lv, b, capacity, size, align_log2) ==
    IF capacity < Pow2(align_log2) \/ BaIsEmpty(lv, b) THEN None
    ELSE LET start == BaNext(lv, b, 0) IN
         IF start = None THEN None
         ELSE FindLoop(lv, b, capacity, size, align_log2,
                       AlignUpLog2(start, align_log2), AlignUpLog2(start, align_log2))

\* the while loop of check_contiguous.
RECURSIVE CheckLoop(_, _, _, _, _, _)
CheckLoop(lv, b, base, capacity, size, offset) ==
    IF ~(offset < capacity) THEN FALSE
    ELSE LET next == BaNext(lv, b, offset) IN
         IF next = None THEN FALSE
         ELSE IF next # offset THEN FALSE
         ELSE IF (offset + 1) - base = size THEN TRUE
         ELSE CheckLoop(lv, b, base, capacity, size, offset + 1)

CheckContiguous(lv, b, base, capacity, size, align_log2) ==
    IF capacity < Pow2(align_log2) \/ BaIsEmpty(lv, b) THEN FALSE
    ELSE IF ~IsAlignedLog2(base, align_log2) THEN FALSE
    ELSE CheckLoop(lv, b, base, capacity, size, base)

\* mutant of BaAllocContiguous: the found range is removed one index short.
BaAllocContiguousShortRemove(lv, b, base, size, align_log2) ==
    IF base # None THEN
        IF CheckContiguous(lv, b, base, Cap(lv), size, align_log2)
        THEN LET r == BaRemove(lv, b, base, base + size) IN
             Ret(r.st, base, TRUE, r.panic)
        ELSE Ret(b, None, FALSE, "")
    ELSE
        LET found == FindContiguous(lv, b, Cap(lv), size, align_log2) IN
        IF found # None
        THEN LET r == BaRemove(lv, b, found, found + size - 1) IN
             Ret(r.st, found, TRUE, r.panic)
        ELSE Ret(b, None, FALSE, "")

\* alloc_contiguous, the same text in the three implementors; base = None
\* is Option::None.
BaAllocContiguous(lv, b, base, size, align_log2) ==
    IF base # None THEN
        IF CheckContiguous(lv, b, base, Cap(lv), size, align_log2)
        THEN LET r == BaRemove(lv, b, base, base + size) IN
             Ret(r.st, base, TRUE, r.panic)
        ELSE Ret(b, None, FALSE, "")
    ELSE
        LET found == FindContiguous(lv, b, Cap(lv), size, align_log2) IN
        IF found # None
        THEN LET r == BaRemove(lv, b, found, found + size) IN
             Ret(r.st, found, TRUE, r.panic)
        ELSE Ret(b, None, FALSE, "")

\* ------------------------------------------------------------ the machine
\* One allocator ba of type lv, driven through the BitAlloc interface.
\* last records the latest call: its name, arguments, results, and the
\* allocator before it (pre).  The record is kept for one step: the next
\* call either undoes or repeats the recorded one (rtOn, with rt the
\* allocator before the recorded call), or the record is dropped (Forget)
\* and any call may follow.  Every call is made in every reachable
\* allocator state with every argument.

VARIABLES lv, ba, last

vars == <<lv, ba, last>>

NoCall(b) ==
    [op |-> "none", a1 |-> None, a2 |-> None, a3 |-> None,
     res |-> None, ok |-> TRUE, panic |-> "",
     pre |-> b, rtOn |-> FALSE, rt |-> b]

Call(op, a1, a2, a3, r, rtOn) ==
    [op |-> op, a1 |-> a1, a2 |-> a2, a3 |-> a3,
     res |-> r.res, ok |-> r.ok, panic |-> r.panic,
     pre |-> ba, rtOn |-> rtOn, rt |-> IF rtOn THEN last.pre ELSE ba]

Init ==
    /\ lv \in Levels
    /\ ba = BaDefault(lv)
    /\ last = NoCall(ba)

\* a panic ends the program.
Running == last.panic = ""

Fresh == last.op = "none"

Keys == 0 .. Cap(lv) - 1

\* the call dealloc(key) follows an alloc() that returned key.
UndoesAlloc(key) == last.op = "alloc" /\ last.res = key

\* the call dealloc_contiguous(base, size) follows an alloc_contiguous of
\* size that returned base.
UndoesAllocContiguous(base, size) ==
    last.op = "alloc_contiguous" /\ last.res = base /\ last.a2 = size

\* the call alloc_contiguous(Some(base), size, align_log2) repeats the same
\* call, which returned Some(base).
RepeatsAllocContiguous(base, size, align_log2) ==
    /\ base # None
    /\ last.op = "alloc_contiguous"
    /\ last.a1 = base /\ last.res = base
    /\ last.a2 = size /\ last.a3 = align_log2

Alloc ==
    /\ Running /\ Fresh
    /\ LET r == BaAlloc(lv, ba) IN
       /\ ba' = r.st
       /\ last' = Call("alloc", None, None, None, r, FALSE)
    /\ UNCHANGED lv

Dealloc ==
    /\ Running
    /\ \E key \in Keys :
        /\ Fresh \/ UndoesAlloc(key)
        /\ LET r == BaDealloc(lv, ba, key) IN
           /\ ba' = r.st
           /\ last' = Call("dealloc", key, None, None, r, UndoesAlloc(key))
    /\ UNCHANGED lv

\* the ranges start..end callers pass to insert and remove: the ranges
\* inside the capacity, empty ones among them, and the ranges with
\* start > end or end > CAP.
Ranges == (0 .. Cap(lv) + 1) \X (0 .. Cap(lv) + 1)

Insert ==
    /\ Running /\ Fresh
    /\ \E se \in Ranges :
        LET s == se[1]
            e == se[2]
            r == BaInsert(lv, ba, s, e)
        IN
        /\ ba' = r.st
        /\ last' = Call("insert", s, e, None, r, FALSE)
    /\ UNCHANGED lv

Remove ==
    /\ Running /\ Fresh
    /\ \E se \in Ranges :
        LET s == se[1]
            e == se[2]
            r == BaRemove(lv, ba, s, e)
        IN
        /\ ba' = r.st
        /\ last' = Call("remove", s, e, None, r, FALSE)
    /\ UNCHANGED lv

AllocContiguous ==
    /\ Running
    /\ \E base \in {None} \cup (0 .. Cap(lv)) :
       \E size \in 1 .. MaxSize : \E align_log2 \in 0 .. MaxAlignLog2 :
        /\ Fresh \/ RepeatsAllocContiguous(base, size, align_log2)
        /\ LET r == BaAllocContiguous(lv, ba, base, size, align_log2) IN
           /\ ba' = r.st
           /\ last' = Call("alloc_contiguous", base, size, align_log2, r,
                           RepeatsAllocContiguous(base, size, align_log2))
    /\ UNCHANGED lv

DeallocContiguous ==
    /\ Running
    /\ \E base \in Keys : \E size \in 1 .. MaxSize :
        /\ Fresh \/ UndoesAllocContiguous(base, size)
        /\ LET r == BaDeallocContiguous(lv, ba, base, size) IN
           /\ ba' = r.st
           /\ last' = Call("dealloc_contiguous", base, size, None, r,
                           UndoesAllocContiguous(base, size))
    /\ UNCHANGED lv

\* the query next(key); it changes nothing.
NextKey ==
    /\ Running /\ Fresh
    /\ \E key \in Keys :
        LET r == Ret(ba, BaNext(lv, ba, key), TRUE, "") IN
        /\ ba' = r.st
        /\ last' = Call("next", key, None, None, r, FALSE)
    /\ UNCHANGED lv

\* the caller is done with the result of the latest call.
Forget ==
    /\ Running /\ ~Fresh
    /\ last' = NoCall(ba)
    /\ UNCHANGED <<lv, ba>>

Next ==
    \/ Alloc
    \/ Dealloc
    \/ Insert
    \/ Remove
    \/ AllocContiguous
    \/ DeallocContiguous
    \/ NextKey
    \/ Forget

Spec == Init /\ [][Next]_vars

\* the free set: the keys for which test(key) is true.
Free(l, b) == {k \in 0 .. Cap(l) - 1 : BaTest(l, b, k)}

\* the indices start .. end - 1 of a Range<usize>.
Span(start, end) == start .. end - 1

\* ------------------------------------------------------------------ claims

C8SummaryOk(c) ==
    \A i \in 0 .. Fan8 - 1 :
        /\ (i \in c.bitset) <=> ~LeafIsEmpty(c.sub[i])
        /\ (i \in c.bitset) <=> (\E k \in 0 .. LeafCap - 1 : LeafTest(c.sub[i], k))

SegSummaryOk(c) ==
    \A i \in 0 .. SIZE - 1 :
        /\ (i \in c.bitset) <=> ~C8IsEmpty(c.sub_seg[i])
        /\ (i \in c.bitset) <=> (\E k \in 0 .. C8Cap - 1 : C8Test(c.sub_seg[i], k))
        /\ C8SummaryOk(c.sub_seg[i])

\* C1: in every cascade node, after any sequence of alloc, dealloc, insert,
\* remove, alloc_contiguous and dealloc_contiguous calls, summary bit i is 1
\* if and only if child i has at least one free index (!children[i].is_empty()).
Claim1_SummaryInvariant ==
    /\ lv = "c8" => C8SummaryOk(ba)
    /\ lv = "seg" => SegSummaryOk(ba)

\* a point dealloc on the three-level tree has just turned a summary bit on.
Witness1_DeallocSetsSummary ==
    /\ lv = "seg" /\ last.op = "dealloc" /\ last.ok
    /\ ba.bitset # last.pre.bitset

\* C2: alloc() on a leaf and on every cascade level returns the lowest free
\* index of the whole allocator and marks exactly that index used; it returns
\* None iff no index is free; the unwrap() inside the cascade never panics.
Claim2_AllocLowestFree ==
    last.op = "alloc" =>
        LET F == Free(lv, last.pre) IN
        /\ last.panic = ""
        /\ IF F = {} THEN last.res = None /\ ba = last.pre
           ELSE last.res = SetMin(F) /\ Free(lv, ba) = F \ {last.res}

\* an alloc on the three-level tree whose lowest free index lies in the last
\* top-level child, below other free indices.
Witness2_AllocInLaterChild ==
    /\ lv = "seg" /\ last.op = "alloc"
    /\ last.res >= C8Cap * (SIZE - 1)
    /\ Free(lv, ba) # {}

\* C3: for start < end <= CAP, insert(range) makes exactly the indices of the
\* range free and remove(range) makes exactly them used, every index outside
\* the range unchanged, also when the range spans several children.
Claim3_InsertRemoveExact ==
    (last.a1 < last.a2 /\ last.a2 <= Cap(lv)) =>
        /\ last.op = "insert" =>
            /\ last.panic = ""
            /\ Free(lv, ba) = Free(lv, last.pre) \cup Span(last.a1, last.a2)
        /\ last.op = "remove" =>
            /\ last.panic = ""
            /\ Free(lv, ba) = Free(lv, last.pre) \ Span(last.a1, last.a2)

\* Scenario B: on a fully free tree, remove(2 .. CAP - 2) leaves exactly the
\* two lowest and the two highest indices free.
Witness3_RemoveAcrossChildren ==
    /\ lv = "seg" /\ last.op = "remove"
    /\ Free(lv, last.pre) = 0 .. SegCap - 1
    /\ last.a1 = 2 /\ last.a2 = SegCap - 2
    /\ Free(lv, ba) = {0, 1, SegCap - 2, SegCap - 1}

\* C4: dealloc(key) marks key free and returns true iff key was used before
\* the call; a double free returns false, does not panic and leaves every bit
\* and every summary bit unchanged.
Claim4_DeallocSignalsDoubleFree ==
    last.op = "dealloc" =>
        LET F == Free(lv, last.pre) IN
        /\ last.panic = ""
        /\ last.a1 \in Free(lv, ba)
        /\ Free(lv, ba) = F \cup {last.a1}
        /\ last.ok <=> last.a1 \notin F
        /\ last.a1 \in F => ba = last.pre

\* a double free on the three-level tree.
Witness4_DoubleFree ==
    /\ lv = "seg" /\ last.op = "dealloc" /\ ~last.ok
    /\ last.a1 \in Free(lv, last.pre)

\* C5: when alloc() returns k, test(k) is false immediately afterwards; when
\* dealloc(k) is then called, test(k) is true immediately afterwards and the
\* free set equals the free set before the alloc.
Claim5_AllocDeallocRoundTrip ==
    /\ (last.op = "alloc" /\ last.res # None) => ~BaTest(lv, ba, last.res)
    /\ (last.op = "dealloc" /\ last.rtOn) =>
        /\ BaTest(lv, ba, last.a1)
        /\ Free(lv, ba) = Free(lv, last.rt)

\* dealloc(k) right after the alloc() that returned k, which had emptied a
\* child of the three-level tree.
Witness5_RoundTrip ==
    /\ lv = "seg" /\ last.op = "dealloc" /\ last.rtOn
    /\ last.pre.bitset # ba.bitset

\* C6: next(key) returns the lowest free index >= key, or None when there is
\* none, also when the child containing key has free indices only below
\* key's offset and the answer lies in a later child.
Claim6_NextLowestAtOrAfter ==
    last.op = "next" =>
        LET S == {i \in Free(lv, ba) : i >= last.a1} IN
        last.res = IF S = {} THEN None ELSE SetMin(S)

\* the child containing key has a free index, all below key; the answer is in
\* a later child.
Witness6_NextInLaterChild ==
    /\ lv = "seg" /\ last.op = "next" /\ last.res # None
    /\ last.res \div LeafCap > last.a1 \div LeafCap
    /\ \E j \in Free(lv, ba) : j \div LeafCap = last.a1 \div LeafCap /\ j < last.a1

\* base is aligned, base + size <= CAP and all of base .. base + size - 1 is free.
Fits(l, b, base, size, align_log2) ==
    /\ base % Pow2(align_log2) = 0
    /\ base + size <= Cap(l)
    /\ Span(base, base + size) \subseteq Free(l, b)

FitBases(l, b, size, align_log2) ==
    {x \in 0 .. Cap(l) - 1 : Fits(l, b, x, size, align_log2)}

LowestFit(l, b, size, align_log2) ==
    IF FitBases(l, b, size, align_log2) = {} THEN None
    ELSE SetMin(FitBases(l, b, size, align_log2))

\* C7 as stated: alloc_contiguous(None, size, align_log2) returns the lowest
\* aligned base with base + size <= capacity and all of [base, base+size)
\* free, and None iff no such base exists.
Counter7_FindLowestFit ==
    (last.op = "alloc_contiguous" /\ last.a1 = None) =>
        last.res = LowestFit(lv, last.pre, last.a2, last.a3)

\* C7 amended: the same when 2^align_log2 <= capacity; when
\* capacity < 2^align_log2 the result is None, even if base 0 fits.
Claim7_FindLowestFitWithinCap ==
    (last.op = "alloc_contiguous" /\ last.a1 = None) =>
        IF Cap(lv) < Pow2(last.a3) THEN last.res = None
        ELSE last.res = LowestFit(lv, last.pre, last.a2, last.a3)

\* an aligned search that succeeds past free indices it had to skip.
Witness7_FindSkipsMisaligned ==
    /\ lv = "seg" /\ last.op = "alloc_contiguous" /\ last.a1 = None
    /\ last.a3 >= 1 /\ last.a2 >= 2 /\ last.res # None
    /\ \E j \in Free(lv, last.pre) : j < last.res

\* C8: a successful alloc_contiguous returning base marks exactly
\* [base, base+size) used and leaves every other index unchanged; one that
\* returns None changes no bit.
Claim8_AllocContiguousFrame ==
    last.op = "alloc_contiguous" =>
        /\ last.panic = ""
        /\ IF last.res # None
           THEN /\ Span(last.res, last.res + last.a2) \subseteq Free(lv, last.pre)
                /\ Free(lv, ba) =
                       Free(lv, last.pre) \ Span(last.res, last.res + last.a2)
           ELSE ba = last.pre

\* Scenario C: bits 1, 2 used, 3, 4, 5 free; alloc_contiguous(None, 2, 1)
\* returns 4 and bit 3 is still free.
Witness8_ScenarioC ==
    /\ lv = "seg" /\ last.op = "alloc_contiguous" /\ last.a1 = None
    /\ last.a2 = 2 /\ last.a3 = 1 /\ last.res = 4
    /\ Free(lv, last.pre) \cap {1, 2, 3, 4, 5} = {3, 4, 5}
    /\ 3 \in Free(lv, ba)

\* C9 as stated: alloc_contiguous(Some(base), size, align_log2) returns
\* Some(base) iff base is aligned, base + size <= CAP and all of
\* [base, base+size) is free; otherwise None and no bit changes.
Counter9_AllocAtIffFits ==
    (last.op = "alloc_contiguous" /\ last.a1 # None) =>
        /\ last.res \in {last.a1, None}
        /\ last.res = last.a1 <=> Fits(lv, last.pre, last.a1, last.a2, last.a3)
        /\ last.res = None => ba = last.pre

\* C9 amended: Some(base) iff 2^align_log2 <= CAP and base is aligned,
\* base + size <= CAP and all of [base, base+size) is free; otherwise None
\* and no bit changes; repeating a successful call returns None.
Claim9_AllocAtIffFitsWithinCap ==
    (last.op = "alloc_contiguous" /\ last.a1 # None) =>
        /\ last.res \in {last.a1, None}
        /\ last.res = last.a1 <=>
               /\ Pow2(last.a3) <= Cap(lv)
               /\ Fits(lv, last.pre, last.a1, last.a2, last.a3)
        /\ last.res = None => ba = last.pre
        /\ last.rtOn => last.res = None

\* a successful alloc_contiguous(Some(base), ..) has just been repeated.
Witness9_RepeatedAllocAt ==
    /\ lv = "seg" /\ last.op = "alloc_contiguous" /\ last.a1 # None
    /\ last.rtOn /\ last.a3 >= 1 /\ last.a2 >= 2

\* C10: a cascade's dealloc_contiguous(base, size) returns false when
\* base + size exceeds CAP; applied to the range a successful
\* alloc_contiguous just returned it returns true and makes exactly
\* [base, base+size) free again, restoring the free set from before the
\* allocation, also when the range spans several children.
Claim10_DeallocContiguousUndoes ==
    last.op = "dealloc_contiguous" =>
        /\ (lv # "leaf" /\ last.a1 + last.a2 > Cap(lv)) =>
               ~last.ok /\ last.panic = ""
        /\ last.rtOn =>
            /\ last.ok /\ last.panic = ""
            /\ Free(lv, ba) = Free(lv, last.pre) \cup Span(last.a1, last.a1 + last.a2)
            /\ Free(lv, ba) = Free(lv, last.rt)

\* the undone range spans two top-level children.
Witness10_UndoAcrossChildren ==
    /\ lv = "seg" /\ last.op = "dealloc_contiguous" /\ last.rtOn
    /\ last.a1 \div C8Cap # (last.a1 + last.a2 - 1) \div C8Cap

-----------------------------------------------------------------------------
\* SegmentBitmapPageAllocator<SIZE> (bitmap_allocator.rs): a page allocator
\* over SegmentBitAllocCascade<BitAlloc512, SIZE>.  Its cascade is the
\* three-level tree above: SegCap pages in SIZE children of C8Cap pages.

\* PAGE_SIZE_1G, the largest alignment, in bytes.  It exceeds the bytes the
\* cascade spans (1 GiB against 2 MiB * 64); the model keeps that order with
\* SegCap pages of at most 4 bytes.
MAX_ALIGN_1GB == 64

\* usize is 64 bits wide; the model's is UsizeBits wide.
UsizeBits == 8

UsizeModulus == 2 ^ UsizeBits

\* the page sizes init_with_page_size is called with: with pages of 4 bytes
\* a segment has more bytes than the cascade has pages, as 2 MiB segments of
\* 4 KiB pages have; with pages of 1 byte the two numbers agree.
PageSizes == {1, 4}

\* the most pages one call asks for.
MaxPages == 2

\* the most calls in a run that are out of the ordinary: dealloc_pages on
\* pages that are not held, increase_segment_at and try_decrease_segment.
MaxIrregular == 1

\* x & y on unsigned integers.
RECURSIVE BitAnd(_, _)
BitAnd(x, y) ==
    IF x = 0 \/ y = 0 THEN 0
    ELSE (x % 2) * (y % 2) + 2 * BitAnd(x \div 2, y \div 2)

\* memory_addr: addr & !(align - 1), for a power of two align.
AlignDown(addr, align) == addr - BitAnd(addr, align - 1)

\* memory_addr: (addr + align - 1) & !(align - 1).
AlignUp(addr, align) == AlignDown(addr + align - 1, align)

\* memory_addr: addr & (align - 1) == 0.
IsAligned(addr, align) == BitAnd(addr, align - 1) = 0

\* usize::is_power_of_two.
IsPowerOfTwo(x) == x > 0 /\ BitAnd(x, x - 1) = 0

\* the result of a call: the allocator afterwards, the value returned (an
\* address, or None), whether it is Ok / true, the AllocError, the panic.
PRet(st, res, ok, err, panic) ==
    [st |-> st, res |-> res, ok |-> ok, err |-> err, panic |-> panic]

\* the allocator in zeroed raw memory.
PaDefault ==
    [base |-> 0, segment_granularity |-> 0, page_size |-> 0,
     used_pages |-> 0, total_pages |-> 0,
     allocated_bitset |-> {}, inner |-> SegDefault]

\* the allocator a with the cascade as the call r left it.
InnerDone(a, r) ==
    PRet([a EXCEPT !.inner = r.st], None, r.panic = "", "", r.panic)

\* mutant of PaInit: counts one page more than the range holds.
PaInitCountsOneMore(a, start, size) ==
    LET end   == AlignDown(start + size, a.page_size)
        start1 == AlignUp(start, a.page_size)
        total == (end - start1) \div a.page_size
        base  == AlignDown(start1, MAX_ALIGN_1GB)
        start_idx == (start1 - base) \div a.page_size
    IN  InnerDone([a EXCEPT !.total_pages = total + 1, !.base = base],
                  SegInsert(a.inner, start_idx, start_idx + total))

\* mutant of PaInit: base is taken from start as given, not from start
\* rounded up to a page.
PaInitBaseFromStart(a, start, size) ==
    LET end   == AlignDown(start + size, a.page_size)
        start1 == AlignUp(start, a.page_size)
        total == (end - start1) \div a.page_size
        base  == AlignDown(start, MAX_ALIGN_1GB)
        start_idx == (start1 - base) \div a.page_size
    IN  IF end < start1 THEN PRet(a, None, FALSE, "", "overflow")
        ELSE
        InnerDone([a EXCEPT !.total_pages = total, !.base = base],
                  SegInsert(a.inner, start_idx, start_idx + total))

\* init: the pages inside [start, start + size) become the free pages.
\* end - start below zero panics on overflow, or wraps to a count of
\* pages that fails insert's assertion: both abort.
PaInit(a, start, size) ==
    IF ~IsPowerOfTwo(a.page_size) THEN PRet(a, None, FALSE, "", "assert")
    ELSE
    LET end   == AlignDown(start + size, a.page_size)
        start1 == AlignUp(start, a.page_size)
        total == (end - start1) \div a.page_size
        base  == AlignDown(start1, MAX_ALIGN_1GB)
        start_idx == (start1 - base) \div a.page_size
    IN  IF end < start1 THEN PRet(a, None, FALSE, "", "overflow")
        ELSE
        InnerDone([a EXCEPT !.total_pages = total, !.base = base],
                  SegInsert(a.inner, start_idx, start_idx + total))

\* init_with_page_size; the segment of start is marked active.
PaInitWithPageSize(a, page_size, segment_granularity, start, size) ==
    IF \/ ~IsPowerOfTwo(page_size)
       \/ ~IsPowerOfTwo(segment_granularity)
       \/ ~IsAligned(start, segment_granularity)
    THEN PRet(a, None, FALSE, "", "assert")
    ELSE
    PaInit([a EXCEPT !.page_size = page_size,
                     !.segment_granularity = segment_granularity,
                     !.allocated_bitset =
                         @ \cup {AlignDown(start, segment_granularity)
                                     \div segment_granularity}],
           start, size)

\* usize::trailing_zeros of a power of two.
Log2(x) == CHOOSE k \in 0 .. UsizeBits - 1 : Pow2(k) = x

\* the address of page idx.
PageAddr(a, idx) == idx * a.page_size + a.base

\* self.used_pages += num_pages.  The sum passes the width of usize only
\* after used_pages wrapped below zero, in a build without overflow checks,
\* where it wraps again.
AddUsedPages(used_pages, num_pages) == (used_pages + num_pages) % UsizeModulus

\* mutant of AllocDone: the pages handed out are not counted.
AllocDoneNoCount(a, num_pages, r) ==
    IF r.panic # "" THEN PRet(a, None, FALSE, "", r.panic)
    ELSE IF r.res = None THEN PRet(a, None, FALSE, "NoMemory", "")
    ELSE PRet([a EXCEPT !.inner = r.st], PageAddr(a, r.res), TRUE, "", "")

\* .map(|idx| idx * page_size + base).ok_or(NoMemory).inspect(|_| used_pages
\* += num_pages) on the result r of the cascade.
AllocDone(a, num_pages, r) ==
    IF r.panic # "" THEN PRet(a, None, FALSE, "", r.panic)
    ELSE IF r.res = None THEN PRet(a, None, FALSE, "NoMemory", "")
    ELSE PRet([a EXCEPT !.inner = r.st,
                        !.used_pages = AddUsedPages(@, num_pages)],
              PageAddr(a, r.res), TRUE, "", "")

\* mutant of PaAllocPages: a zero-page request finds no memory.
PaAllocPagesZeroIsNoMemory(a, num_pages, align_pow2) ==
    IF align_pow2 > MAX_ALIGN_1GB \/ ~IsAligned(align_pow2, a.page_size)
    THEN PRet(a, None, FALSE, "InvalidParam", "")
    ELSE IF ~IsPowerOfTwo(align_pow2 \div a.page_size)
    THEN PRet(a, None, FALSE, "InvalidParam", "")
    ELSE IF num_pages = 1 THEN AllocDone(a, num_pages, SegAlloc(a.inner))
    ELSE IF num_pages > 1
    THEN AllocDone(a, num_pages,
                   BaAllocContiguous("seg", a.inner, None, num_pages,
                                     Log2(align_pow2 \div a.page_size)))
    ELSE PRet(a, None, FALSE, "NoMemory", "")

\* alloc_pages: one page comes from alloc(), more from alloc_contiguous.
PaAllocPages(a, num_pages, align_pow2) ==
    IF align_pow2 > MAX_ALIGN_1GB \/ ~IsAligned(align_pow2, a.page_size)
    THEN PRet(a, None, FALSE, "InvalidParam", "")
    ELSE IF ~IsPowerOfTwo(align_pow2 \div a.page_size)
    THEN PRet(a, None, FALSE, "InvalidParam", "")
    ELSE IF num_pages = 1 THEN AllocDone(a, num_pages, SegAlloc(a.inner))
    ELSE IF num_pages > 1
    THEN AllocDone(a, num_pages,
                   BaAllocContiguous("seg", a.inner, None, num_pages,
                                     Log2(align_pow2 \div a.page_size)))
    ELSE PRet(a, None, FALSE, "InvalidParam", "")

\* mutant of PaAllocPagesAt: the pages handed out are counted twice.
PaAllocPagesAtCountsTwice(a, base, num_pages, align_pow2) ==
    IF \/ align_pow2 > MAX_ALIGN_1GB
       \/ ~IsAligned(align_pow2, a.page_size)
       \/ ~IsAligned(base, align_pow2)
    THEN PRet(a, None, FALSE, "InvalidParam", "")
    ELSE IF ~IsPowerOfTwo(align_pow2 \div a.page_size)
    THEN PRet(a, None, FALSE, "InvalidParam", "")
    ELSE AllocDone(a, 2 * num_pages,
                   BaAllocContiguous("seg", a.inner,
                                     (base - a.base) \div a.page_size,
                                     num_pages,
                                     Log2(align_pow2 \div a.page_size)))

\* alloc_pages_at; base is an address at or above self.base.
PaAllocPagesAt(a, base, num_pages, align_pow2) ==
    IF \/ align_pow2 > MAX_ALIGN_1GB
       \/ ~IsAligned(align_pow2, a.page_size)
       \/ ~IsAligned(base, align_pow2)
    THEN PRet(a, None, FALSE, "InvalidParam", "")
    ELSE IF ~IsPowerOfTwo(align_pow2 \div a.page_size)
    THEN PRet(a, None, FALSE, "InvalidParam", "")
    ELSE AllocDone(a, num_pages,
                   BaAllocContiguous("seg", a.inner,
                                     (base - a.base) \div a.page_size,
                                     num_pages,
                                     Log2(align_pow2 \div a.page_size)))

\* self.used_pages -= num_pages: below zero it panics where overflow checks
\* are compiled in (checked) and wraps where they are not.
SubUsedPages(a, num_pages, checked) ==
    IF a.used_pages >= num_pages
    THEN PRet([a EXCEPT !.used_pages = @ - num_pages], None, TRUE, "", "")
    ELSE IF checked THEN PRet(a, None, FALSE, "", "overflow")
    ELSE PRet([a EXCEPT !.used_pages = @ - num_pages + UsizeModulus],
              None, TRUE, "", "")

\* mutant of DeallocDone: the pages are uncounted whatever dealloc says.
DeallocDoneAlwaysCounts(a, num_pages, r, checked) ==
    IF r.panic # "" THEN PRet(a, None, FALSE, "", r.panic)
    ELSE SubUsedPages([a EXCEPT !.inner = r.st], num_pages, checked)

\* if <dealloc> { self.used_pages -= num_pages } on the result r of the
\* cascade.
DeallocDone(a, num_pages, r, checked) ==
    IF r.panic # "" THEN PRet(a, None, FALSE, "", r.panic)
    ELSE IF r.ok
    THEN SubUsedPages([a EXCEPT !.inner = r.st], num_pages, checked)
    ELSE PRet([a EXCEPT !.inner = r.st], None, FALSE, "", "")

\* dealloc_pages; pos is an address of the cascade, at or above self.base.
PaDeallocPages(a, pos, num_pages, checked) ==
    IF ~IsAligned(pos, a.page_size) THEN PRet(a, None, FALSE, "", "assert")
    ELSE IF num_pages = 1
    THEN DeallocDone(a, num_pages,
                     SegDealloc(a.inner, (pos - a.base) \div a.page_size),
                     checked)
    ELSE IF num_pages > 1
    THEN DeallocDone(a, num_pages,
                     SegDeallocContiguous(a.inner,
                                          (pos - a.base) \div a.page_size,
                                          num_pages),
                     checked)
    ELSE PRet(a, None, FALSE, "", "")

\* available_pages: total_pages - used_pages.
PaAvailablePages(a, checked) ==
    IF a.total_pages >= a.used_pages
    THEN PRet(a, a.total_pages - a.used_pages, TRUE, "", "")
    ELSE IF checked THEN PRet(a, None, FALSE, "", "overflow")
    ELSE PRet(a, a.total_pages - a.used_pages + UsizeModulus, TRUE, "", "")

\* increase_segment_at: segment_base / segment_granularity names the
\* segment; the range inserted is [start, end) as the code computes it.
PaIncreaseSegmentAt(a, segment_base) ==
    IF ~IsAligned(segment_base, a.segment_granularity)
    THEN PRet(a, None, FALSE, "", "assert")
    ELSE
    LET segment_idx == segment_base \div a.segment_granularity
        start == segment_idx * a.segment_granularity
        end == start + a.segment_granularity
    IN  IF segment_idx \in a.allocated_bitset
        THEN PRet(a, None, FALSE, "", "")
        ELSE InnerDone([a EXCEPT !.allocated_bitset = @ \cup {segment_idx}],
                       SegInsert(a.inner, start, end))

\* segment_is_free: the child of the segment IsEmpty.  Its assert!(idx <
\* SIZE) is the first test of DecreaseLoop.
SegmentIsFree(c, idx) == C8IsEmpty(c.sub_seg[idx])

\* mutant of DecreaseDone: the pages of the segment leave total_pages.
DecreaseDoneLowersTotal(a, segment_idx, r) ==
    IF r.panic # "" THEN PRet(a, None, FALSE, "", r.panic)
    ELSE PRet([a EXCEPT !.inner = r.st,
                        !.allocated_bitset = @ \ {segment_idx},
                        !.total_pages =
                            @ - a.segment_granularity \div a.page_size],
              None, TRUE, "", "")

\* the body of the loop of try_decrease_segment for a segment that
\* segment_is_free: r is the result of inner.remove(start..end).
DecreaseDone(a, segment_idx, r) ==
    IF r.panic # "" THEN PRet(a, None, FALSE, "", r.panic)
    ELSE PRet([a EXCEPT !.inner = r.st,
                        !.allocated_bitset = @ \ {segment_idx}],
              None, TRUE, "", "")

\* the loop of try_decrease_segment over the segments collected from
\* allocated_bitset, in ascending order; x is the loop's state so far.
RECURSIVE DecreaseLoop(_, _)
DecreaseLoop(x, segment_idxes) ==
    IF segment_idxes = {} \/ x.panic # "" THEN x
    ELSE IF SetMin(segment_idxes) >= SIZE
    THEN PRet(x.st, None, FALSE, "", "assert")
    ELSE DecreaseLoop(
             IF ~SegmentIsFree(x.st.inner, SetMin(segment_idxes)) THEN x
             ELSE DecreaseDone(
                      x.st, SetMin(segment_idxes),
                      SegRemove(x.st.inner,
                                SetMin(segment_idxes)
                                    * x.st.segment_granularity,
                                SetMin(segment_idxes)
                                    * x.st.segment_granularity
                                    + x.st.segment_granularity)),
             segment_idxes \ {SetMin(segment_idxes)})

PaTryDecreaseSegment(a) ==
    DecreaseLoop(PRet(a, None, TRUE, "", ""), a.allocated_bitset)

\* ------------------------------------------------- the page allocator machine
\* The same variables hold a page allocator: lv = "pages", ba the
\* SegmentBitmapPageAllocator, last the latest call.  last.h is the history
\* of the run: the arguments of init and the number of calls out of the
\* ordinary (irregular): dealloc_pages on pages that were not held,
\* increase_segment_at and try_decrease_segment.

NoHistory == [irregular |-> 0, start |-> 0, size |-> 0, live |-> {}]

NoCallP(a, h) ==
    [op |-> "none", a1 |-> None, a2 |-> None, a3 |-> None,
     res |-> None, ok |-> TRUE, err |-> "", panic |-> "",
     pre |-> a, rtOn |-> FALSE, h |-> h]

CallP(op, a1, a2, a3, r, rtOn, h) ==
    [op |-> op, a1 |-> a1, a2 |-> a2, a3 |-> a3,
     res |-> r.res, ok |-> r.ok, err |-> r.err, panic |-> r.panic,
     pre |-> ba, rtOn |-> rtOn, h |-> h]

InitPages ==
    /\ lv = "pages"
    /\ ba = PaDefault
    /\ last = NoCallP(ba, NoHistory)

\* init_with_page_size has run.
Initialised == ba.page_size # 0

\* the page index of an address.
PageIdx(a, addr) == (addr - a.base) \div a.page_size

\* the free pages of the allocator.
FreePages(a) == Free("seg", a.inner)

\* the pages of segment i: child i of the cascade.
SegmentPages(i) == Span(i * C8Cap, (i + 1) * C8Cap)

\* the pages of the active segments.
ActivePages(a) == UNION {SegmentPages(i) : i \in a.allocated_bitset}

\* the pages callers hold: the pages of the active segments in use.
HeldPages(a) == ActivePages(a) \ FreePages(a)

\* the alignments callers ask for: one and two pages.
AlignInputs(page_size) == {page_size, 2 * page_size}

\* the other alignments: none, one byte, three and four pages, the largest
\* alignment and twice that.
OddAlignInputs(page_size) ==
    {0, 1, 3 * page_size, 4 * page_size, MAX_ALIGN_1GB, 2 * MAX_ALIGN_1GB}
        \ AlignInputs(page_size)

\* the requests of alloc_pages: every count with the usual alignments, one
\* page with the others.
Requests(page_size) ==
    ((0 .. MaxPages) \X AlignInputs(page_size))
        \cup ({1} \X OddAlignInputs(page_size))

\* the addresses callers pass: the pages of the cascade and, with pages of
\* more than a byte, an address inside a page.
AddrInputs(a) ==
    {PageAddr(a, k) : k \in 0 .. SegCap - 1}
        \cup (IF a.page_size > 1 THEN {PageAddr(a, 1) + 1} ELSE {})

\* the addresses init_with_page_size is given as start.
InitStarts == {0}

\* the segment is sized to the pages of one child of the cascade, and the
\* range given to init is one segment.
InitWithPageSize ==
    /\ Running /\ Fresh /\ ~Initialised
    /\ \E page_size \in PageSizes :
       LET segment_granularity == C8Cap * page_size IN
       \E start \in InitStarts :
        LET size == segment_granularity
            r == PaInitWithPageSize(ba, page_size, segment_granularity,
                                    start, size)
        IN
        /\ ba' = r.st
        /\ last' = CallP("init_with_page_size", start, size, None, r, FALSE,
                         [NoHistory EXCEPT !.start = start, !.size = size])
    /\ UNCHANGED lv

AllocPages ==
    /\ Running /\ Fresh /\ Initialised
    /\ \E rq \in Requests(ba.page_size) :
        LET num_pages == rq[1]
            align_pow2 == rq[2]
            r == PaAllocPages(ba, num_pages, align_pow2)
        IN
        /\ ba' = r.st
        /\ last' = CallP("alloc_pages", num_pages, align_pow2, None, r, FALSE,
                         last.h)
    /\ UNCHANGED lv

\* the requests of alloc_pages_at: every address and count with the usual
\* alignments; at the first and the third page no page with the usual
\* alignments and one page with the others.  align_pow2 is not 0 here:
\* is_aligned(base, 0) subtracts below zero.
RequestsAt(a) ==
    (AddrInputs(a) \X (1 .. MaxPages) \X AlignInputs(a.page_size))
        \cup ({PageAddr(a, 0), PageAddr(a, 2)} \X {0}
                 \X AlignInputs(a.page_size))
        \cup ({PageAddr(a, 0), PageAddr(a, 2)} \X {1}
                 \X (OddAlignInputs(a.page_size) \ {0}))

\* the requests of dealloc_pages: every address and count, no page at the
\* first page.
RequestsDealloc(a) ==
    (AddrInputs(a) \X (1 .. MaxPages)) \cup ({PageAddr(a, 0)} \X {0})

AllocPagesAt ==
    /\ Running /\ Fresh /\ Initialised
    /\ \E rq \in RequestsAt(ba) :
        LET base == rq[1]
            num_pages == rq[2]
            align_pow2 == rq[3]
            r == PaAllocPagesAt(ba, base, num_pages, align_pow2)
        IN
        /\ ba' = r.st
        /\ last' = CallP("alloc_pages_at", base, num_pages, align_pow2, r,
                         FALSE, last.h)
    /\ UNCHANGED lv

\* the callers hold every page of the range they give back.
HoldsPages(a, pos, num_pages) ==
    Span(PageIdx(a, pos), PageIdx(a, pos) + num_pages) \subseteq HeldPages(a)

DeallocPages ==
    /\ Running /\ Fresh /\ Initialised
    /\ \E rq \in RequestsDealloc(ba) : \E checked \in BOOLEAN :
        LET pos == rq[1]
            num_pages == rq[2]
            r == PaDeallocPages(ba, pos, num_pages, checked)
            held == IsAligned(pos, ba.page_size)
                        => HoldsPages(ba, pos, num_pages)
        IN
        /\ held \/ last.h.irregular < MaxIrregular
        /\ ba' = r.st
        /\ last' = CallP("dealloc_pages", pos, num_pages, None, r, FALSE,
                         IF held THEN last.h
                         ELSE [last.h EXCEPT !.irregular = @ + 1])
    /\ UNCHANGED lv

\* the call increase_segment_at(segment_base) follows the same call.
RepeatsIncrease(segment_base) ==
    last.op = "increase_segment_at" /\ last.a1 = segment_base /\ ~last.rtOn

IncreaseSegmentAt ==
    /\ Running /\ Initialised
    /\ \E segment_idx \in 0 .. SIZE - 1 :
        LET segment_base == segment_idx * ba.segment_granularity
            r == PaIncreaseSegmentAt(ba, segment_base)
        IN
        /\ \/ Fresh /\ last.h.irregular < MaxIrregular
           \/ RepeatsIncrease(segment_base)
        /\ ba' = r.st
        /\ last' = CallP("increase_segment_at", segment_base, None, None, r,
                         RepeatsIncrease(segment_base),
                         [last.h EXCEPT !.irregular = @ + 1])
    /\ UNCHANGED lv

TryDecreaseSegment ==
    /\ Running /\ Fresh /\ Initialised
    /\ last.h.irregular < MaxIrregular
    /\ LET r == PaTryDecreaseSegment(ba) IN
       /\ ba' = r.st
       /\ last' = CallP("try_decrease_segment", None, None, None, r, FALSE,
                        [last.h EXCEPT !.irregular = @ + 1])
    /\ UNCHANGED lv

\* the caller is done with the result of the latest call.
ForgetPages ==
    /\ Running /\ ~Fresh
    /\ last' = NoCallP(ba, last.h)
    /\ UNCHANGED <<lv, ba>>

NextPages ==
    \/ InitWithPageSize
    \/ AllocPages
    \/ AllocPagesAt
    \/ DeallocPages
    \/ IncreaseSegmentAt
    \/ TryDecreaseSegment
    \/ ForgetPages

SpecPages == InitPages /\ [][NextPages]_vars

\* ------------------------------------------- the page allocator and its owner
\* The owning region keeps account of the pages it was handed (last.h.live),
\* gives back only what it holds, and unmaps and maps segments.

\* the pages handed out by alloc_pages and not given back to dealloc_pages
\* since.
LivePages == last.h.live

\* the pages of a successful alloc_pages are held from then on.
Take(a, r, num_pages) ==
    IF r.ok /\ r.panic = ""
    THEN [last.h EXCEPT
             !.live = @ \cup Span(PageIdx(a, r.res),
                                  PageIdx(a, r.res) + num_pages)]
    ELSE last.h

\* alloc_pages of one to MaxPages pages with the alignment of a page.
OwnerAllocPages ==
    /\ Running /\ Fresh /\ Initialised
    /\ \E num_pages \in 1 .. MaxPages :
        LET r == PaAllocPages(ba, num_pages, ba.page_size) IN
        /\ ba' = r.st
        /\ last' = CallP("alloc_pages", num_pages, ba.page_size, None, r,
                         FALSE, Take(ba, r, num_pages))
    /\ UNCHANGED lv

\* dealloc_pages of a range the owner holds; the pages are held no longer
\* once the call returns, whatever it did with them: it returns nothing.
OwnerDeallocPages ==
    /\ Running /\ Fresh /\ Initialised
    /\ \E idx \in 0 .. SegCap - 1 : \E num_pages \in 1 .. MaxPages :
       \E checked \in BOOLEAN :
        LET pos == PageAddr(ba, idx)
            r == PaDeallocPages(ba, pos, num_pages, checked)
        IN
        /\ Span(idx, idx + num_pages) \subseteq LivePages
        /\ ba' = r.st
        /\ last' = CallP("dealloc_pages", pos, num_pages, None, r, FALSE,
                         [last.h EXCEPT
                             !.live = @ \ Span(idx, idx + num_pages)])
    /\ UNCHANGED lv

\* increase_segment_at on the segment of init, after try_decrease_segment
\* unmapped it.
OwnerIncreaseSegmentAt ==
    /\ Running /\ Fresh /\ Initialised
    /\ \E segment_idx \in {last.h.start \div ba.segment_granularity}
                            \ ba.allocated_bitset :
        LET segment_base == segment_idx * ba.segment_granularity
            r == PaIncreaseSegmentAt(ba, segment_base)
        IN
        /\ ba' = r.st
        /\ last' = CallP("increase_segment_at", segment_base, None, None, r,
                         FALSE, last.h)
    /\ UNCHANGED lv

\* ------------------------------------------------------------ init on its own

\* the ranges [start, start + size) given to init: at the bottom of the
\* address space, across the first boundary of MAX_ALIGN_1GB, and above it.
InitRanges ==
    {0, 1, 4, 8, MAX_ALIGN_1GB - 3, MAX_ALIGN_1GB}
        \X {0, 2, 3, 4, 8, 16, 36}

\* init(start, size) of the BaseAllocator trait, on an allocator whose
\* page_size init_with_page_size has set.
BaseInit ==
    /\ Running /\ Fresh /\ Initialised
    /\ last.h.irregular < MaxIrregular
    /\ \E rg \in InitRanges :
        LET r == PaInit(ba, rg[1], rg[2]) IN
        /\ ba' = r.st
        /\ last' = CallP("init", rg[1], rg[2], None, r, FALSE,
                         [last.h EXCEPT !.irregular = @ + 1])
    /\ UNCHANGED lv

NextInit ==
    \/ InitWithPageSize
    \/ BaseInit
    \/ ForgetPages

SpecInit == InitPages /\ [][NextInit]_vars

\* --------------------------------------------------- segments at any address

\* the segment-aligned addresses given as start and as segment_base: the
\* first two segments of the address space, and the first two at the first
\* boundary of MAX_ALIGN_1GB.
SegmentStarts(segment_granularity) ==
    {0, segment_granularity, MAX_ALIGN_1GB,
     MAX_ALIGN_1GB + segment_granularity}

\* init_with_page_size with one segment at any of these addresses.
InitWithPageSizeAt ==
    /\ Running /\ Fresh /\ ~Initialised
    /\ \E page_size \in PageSizes :
       LET segment_granularity == C8Cap * page_size IN
       \E start \in SegmentStarts(segment_granularity) :
        LET size == segment_granularity
            r == PaInitWithPageSize(ba, page_size, segment_granularity,
                                    start, size)
        IN
        /\ ba' = r.st
        /\ last' = CallP("init_with_page_size", start, size, None, r, FALSE,
                         [NoHistory EXCEPT !.start = start, !.size = size])
    /\ UNCHANGED lv

\* increase_segment_at at any of these addresses.
IncreaseSegmentAtAddr ==
    /\ Running /\ Fresh /\ Initialised
    /\ \E segment_base \in SegmentStarts(ba.segment_granularity) :
        LET r == PaIncreaseSegmentAt(ba, segment_base) IN
        /\ ba' = r.st
        /\ last' = CallP("increase_segment_at", segment_base, None, None, r,
                         FALSE, last.h)
    /\ UNCHANGED lv

NextSegments ==
    \/ InitWithPageSizeAt
    \/ OwnerAllocPages
    \/ IncreaseSegmentAtAddr
    \/ TryDecreaseSegment
    \/ ForgetPages

SpecSegments == InitPages /\ [][NextSegments]_vars

NextOwner ==
    \/ InitWithPageSize
    \/ OwnerAllocPages
    \/ OwnerDeallocPages
    \/ TryDecreaseSegment
    \/ OwnerIncreaseSegmentAt
    \/ ForgetPages

SpecOwner == InitPages /\ [][NextOwner]_vars

\* ------------------------------------------------ claims: the page allocator

\* x is a power of two, by its definition.
IsPow2Number(x) == \E k \in 0 .. UsizeBits : x = 2 ^ k

\* the latest call was op, and it came back.
Returned(op) == last.op = op /\ last.panic = ""

\* the call changed neither used_pages nor a free bit.
PagesUnchanged ==
    /\ ba.used_pages = last.pre.used_pages
    /\ FreePages(ba) = FreePages(last.pre)

\* the parameters alloc_pages rejects.
BadRequest(a, num_pages, align_pow2) ==
    \/ align_pow2 > MAX_ALIGN_1GB
    \/ align_pow2 % a.page_size # 0
    \/ ~IsPow2Number(align_pow2 \div a.page_size)
    \/ num_pages = 0

\* C11: alloc_pages(num_pages, align_pow2) returns InvalidParam exactly when
\* align_pow2 is above the largest alignment, or is not a multiple of
\* page_size, or align_pow2 / page_size is not a power of two, or num_pages
\* is 0; then used_pages and every free bit are unchanged.
Claim11_AllocPagesInvalidParam ==
    last.op = "alloc_pages" =>
        LET bad == BadRequest(last.pre, last.a1, last.a2) IN
        /\ last.panic = ""
        /\ (last.err = "InvalidParam") <=> bad
        /\ bad => PagesUnchanged

\* three pages of alignment are asked for one page, with pages free.
Witness11_ThreePageAlignment ==
    /\ Returned("alloc_pages") /\ last.err = "InvalidParam"
    /\ last.a1 = 1 /\ last.a2 = 3 * ba.page_size
    /\ FreePages(ba) # {}

\* the pages [idx, idx + num_pages) are all free in a.
RunFree(a, idx, num_pages) ==
    /\ idx + num_pages <= SegCap
    /\ Span(idx, idx + num_pages) \subseteq FreePages(a)

\* the call took exactly the pages [idx, idx + num_pages), all free before,
\* returned the address of page idx and counted the pages.
TookRun(idx, num_pages) ==
    /\ last.res = last.pre.base + idx * last.pre.page_size
    /\ RunFree(last.pre, idx, num_pages)
    /\ FreePages(ba) = FreePages(last.pre) \ Span(idx, idx + num_pages)
    /\ ba.used_pages = (last.pre.used_pages + num_pages) % UsizeModulus

\* the index the tree chooses: the lowest free one for one page, the lowest
\* aligned run for more.
TreeChoice(a, num_pages, align_pow2) ==
    IF num_pages = 1 THEN SetMin(FreePages(a))
    ELSE LowestFit("seg", a.inner, num_pages,
                   Log2(align_pow2 \div a.page_size))

\* C12: a successful alloc_pages returns base + idx * page_size for the index
\* idx the tree chose, turns exactly the num_pages free bits from idx into
\* used bits and adds num_pages to used_pages; when no run of num_pages free
\* pages exists it returns NoMemory, and NoMemory leaves used_pages and
\* every bit unchanged.
Claim12_AllocPagesTakesRun ==
    Returned("alloc_pages") =>
        /\ last.ok =>
            /\ FreePages(last.pre) # {}
            /\ TookRun(TreeChoice(last.pre, last.a1, last.a2), last.a1)
        /\ last.err = "NoMemory" => ba = last.pre
        /\ (/\ ~BadRequest(last.pre, last.a1, last.a2)
            /\ \A idx \in 0 .. SegCap - 1 : ~RunFree(last.pre, idx, last.a1))
               => last.err = "NoMemory"

\* two pages are handed out above page 0.
Witness12_TwoPagesAboveFirst ==
    /\ Returned("alloc_pages") /\ last.ok /\ last.a1 = 2
    /\ last.res > ba.base
    /\ ba.used_pages = last.pre.used_pages + 2

\* C13 as stated: every address a successful alloc_pages(num_pages,
\* align_pow2) returns is a multiple of align_pow2, for one page as for
\* more.  One page comes from alloc(), which takes the lowest free page
\* whatever the alignment.
Counter13_AllocPagesAligned ==
    (Returned("alloc_pages") /\ last.ok) => last.res % last.a2 = 0

\* C14 as stated: alloc_pages_at rejects what alloc_pages rejects, and a
\* base that is not a multiple of align_pow2, with InvalidParam; with valid
\* parameters it returns Ok(base) if the num_pages pages from base are all
\* free, and NoMemory with the state unchanged otherwise.  A zero-page
\* request reaches check_contiguous and comes back NoMemory.
Counter14_AllocPagesAtValidates ==
    Returned("alloc_pages_at") =>
        LET bad == \/ BadRequest(last.pre, last.a2, last.a3)
                   \/ last.a1 % last.a3 # 0
            idx == PageIdx(last.pre, last.a1)
        IN  IF bad THEN last.err = "InvalidParam"
            ELSE IF RunFree(last.pre, idx, last.a2)
                 THEN last.ok /\ last.res = last.a1
            ELSE last.err = "NoMemory" /\ ba = last.pre

\* C15: dealloc_pages(pos, num_pages) takes num_pages off used_pages only
\* if the underlying dealloc freed something: freeing pages that are free
\* already and a zero-page request leave used_pages unchanged, and a pos
\* that is not a multiple of page_size aborts before any state is changed.
Claim15_DeallocPagesCounts ==
    last.op = "dealloc_pages" =>
        LET a == last.pre
            num_pages == last.a2
            idx == PageIdx(a, last.a1)
        IN  IF last.a1 % a.page_size # 0
            THEN last.panic = "assert" /\ ba = a
            ELSE
            /\ last.panic \in {"", "overflow"}
            /\ ba.used_pages # a.used_pages =>
                /\ ba.used_pages = (a.used_pages - num_pages) % UsizeModulus
                /\ FreePages(ba) # FreePages(a)
                /\ FreePages(a) \subseteq FreePages(ba)
            /\ num_pages = 0 => ba = a
            /\ (num_pages >= 1 /\ RunFree(a, idx, num_pages)) =>
                last.panic = "" /\ ba = a

\* a page that is free already is given back while pages are in use.
Witness15_DoubleFree ==
    /\ Returned("dealloc_pages") /\ last.a2 = 1
    /\ PageIdx(last.pre, last.a1) \in FreePages(last.pre)
    /\ last.pre.used_pages > 0
    /\ ba.used_pages = last.pre.used_pages

\* the run so far is init and calls of alloc_pages, alloc_pages_at and
\* dealloc_pages, none of them on pages that were not held.
RegularRun == Initialised /\ last.h.irregular = 0

\* available_pages() comes back with n, with overflow checks or without.
AvailableIs(a, n) ==
    \A checked \in BOOLEAN :
        LET r == PaAvailablePages(a, checked) IN r.panic = "" /\ r.res = n

\* C16: conservation.  Over alloc_pages, alloc_pages_at and dealloc_pages
\* with no double free, used_pages + available_pages == total_pages in
\* every reachable state: available_pages() never subtracts below zero.
Claim16_Conservation ==
    (RegularRun /\ last.panic = "") =>
        \E n \in 0 .. SegCap :
            AvailableIs(ba, n) /\ ba.used_pages + n = ba.total_pages

\* pages taken by alloc_pages_at were given back, and others are in use.
Witness16_GaveBackSome ==
    /\ RegularRun /\ Returned("dealloc_pages") /\ last.a2 = 2
    /\ ba.used_pages = last.pre.used_pages - 2
    /\ ba.used_pages > 0

\* init was given one segment, the only active one.
OneSegmentSpan ==
    /\ ba.allocated_bitset = {last.h.start \div ba.segment_granularity}
    /\ last.h.size = ba.segment_granularity

\* C17: exhaustion.  With one active segment that covers the span, once the
\* pages are all handed out available_pages() is 0, and each further
\* alloc_pages(1, page_size) returns NoMemory, without a panic and without
\* a change of state.
Claim17_Exhaustion ==
    (RegularRun /\ OneSegmentSpan) =>
        /\ FreePages(ba) = {} => AvailableIs(ba, 0)
        /\ (/\ last.op = "alloc_pages"
            /\ last.a1 = 1 /\ last.a2 = ba.page_size
            /\ FreePages(last.pre) = {})
               => (last.panic = "" /\ last.err = "NoMemory" /\ ba = last.pre)

\* alloc_pages(1, page_size) fails on the exhausted segment.
Witness17_Exhausted ==
    /\ RegularRun /\ OneSegmentSpan
    /\ Returned("alloc_pages") /\ last.a1 = 1 /\ last.a2 = ba.page_size
    /\ last.err = "NoMemory"
    /\ ba.used_pages = C8Cap /\ AvailableIs(ba, 0)

\* the segment of the address segment_base.
SegmentOf(a, segment_base) == segment_base \div a.segment_granularity

\* the page indices whose addresses lie in the segment at segment_base.
PagesInSegment(a, segment_base) ==
    {idx \in 0 .. SegCap - 1 :
        /\ segment_base <= PageAddr(a, idx)
        /\ PageAddr(a, idx) < segment_base + a.segment_granularity}

\* the latest call is increase_segment_at on a segment that was inactive.
IncreasedInactive ==
    /\ last.op = "increase_segment_at" /\ ~last.rtOn
    /\ SegmentOf(last.pre, last.a1) \notin last.pre.allocated_bitset

\* C18 as stated: increase_segment_at(segment_base) on an inactive segment
\* marks it active, returns true and inserts as free exactly the
\* segment_granularity / page_size page indices whose addresses lie in the
\* segment.  The range inserted is the byte range of the segment taken as
\* bit indices.
Counter18_IncreaseInsertsSegmentPages ==
    IncreasedInactive =>
        /\ last.panic = "" /\ last.ok
        /\ ba.allocated_bitset =
               last.pre.allocated_bitset \cup {SegmentOf(last.pre, last.a1)}
        /\ FreePages(ba) =
               FreePages(last.pre) \cup PagesInSegment(last.pre, last.a1)

\* C19 as stated: increase_segment_at(s) twice in a row on an inactive
\* segment returns true, then false, and the second call changes nothing.
Counter19_IncreaseTwice ==
    /\ IncreasedInactive => (last.panic = "" /\ last.ok)
    /\ (last.op = "increase_segment_at" /\ last.rtOn) =>
           (last.panic = "" /\ ~last.ok /\ ba = last.pre)

\* the active segments of a with every page free.
EntirelyFree(a) ==
    {i \in a.allocated_bitset : SegmentPages(i) \subseteq FreePages(a)}

\* C20 as stated: try_decrease_segment() deactivates, and removes the
\* range of, exactly the active segments that are entirely free; an active
\* segment with a page in use stays active with its bits unchanged.
\* segment_is_free asks whether the child has no free page.
Counter20_DecreaseFreeSegments ==
    last.op = "try_decrease_segment" =>
        /\ last.panic = ""
        /\ ba.allocated_bitset =
               last.pre.allocated_bitset \ EntirelyFree(last.pre)
        /\ FreePages(ba) =
               FreePages(last.pre)
                   \ UNION {SegmentPages(i) : i \in EntirelyFree(last.pre)}

\* ------------------------------------------------- claims: contract violations

\* C24: insert(range) and remove(range) with start > end or end > CAP abort
\* on the assertion before any bit or summary bit is modified, on the leaf
\* and on every cascade level.
Claim24_BadRangeAborts ==
    (last.op \in {"insert", "remove"} /\ lv \in Levels
        /\ (last.a1 > last.a2 \/ last.a2 > Cap(lv)))
            => (last.panic = "assert" /\ ba = last.pre)

\* remove of a range past the capacity on a three-level tree with free bits.
Witness24_RemovePastCap ==
    /\ lv = "seg" /\ last.op = "remove"
    /\ last.a1 < last.a2 /\ last.a2 > SegCap
    /\ last.panic = "assert" /\ Free(lv, ba) # {}

\* ------------------------------------------------ claims: segments and pages

\* C21 as stated: a segment becomes active only through
\* increase_segment_at on that segment (and the segment of start through
\* init_with_page_size), becomes inactive only through try_decrease_segment
\* at a moment when none of its pages is allocated, and alloc_pages,
\* alloc_pages_at and dealloc_pages leave allocated_bitset alone.
\* try_decrease_segment unmaps the segments without a free page (C20).
Counter21_SegmentStateMachine ==
    [][\A i \in 0 .. SIZE - 1 :
        /\ (i \notin ba.allocated_bitset /\ i \in ba'.allocated_bitset) =>
              \/ last'.op = "init_with_page_size"
              \/ /\ last'.op = "increase_segment_at"
                 /\ last'.a1 = i * ba.segment_granularity
        /\ (i \in ba.allocated_bitset /\ i \notin ba'.allocated_bitset) =>
              /\ last'.op = "try_decrease_segment"
              /\ SegmentPages(i) \cap LivePages = {}
        /\ last'.op \in {"alloc_pages", "alloc_pages_at", "dealloc_pages"}
              => ba'.allocated_bitset = ba.allocated_bitset]_vars

\* C22 as stated: a page is free only if its segment is active, and a
\* successful allocation returns pages of active segments.  A segment
\* unmapped with its pages allocated (C20) gets them back as free pages.
Counter22_FreeOnlyInActiveSegments ==
    Initialised =>
        /\ FreePages(ba) \subseteq ActivePages(ba)
        /\ (last.op = "alloc_pages" /\ last.ok /\ last.panic = "") =>
               Span(PageIdx(ba, last.res), PageIdx(ba, last.res) + last.a1)
                   \subseteq ActivePages(last.pre)

\* C30 as stated: the pages of a successful allocation are disjoint from
\* the pages allocated earlier and not given back since.  A segment
\* unmapped with its pages allocated (C20) and mapped again has them free.
Counter30_NoDoubleAllocation ==
    [][(last'.op = "alloc_pages" /\ last'.ok /\ last'.panic = "") =>
          Span(PageIdx(ba, last'.res), PageIdx(ba, last'.res) + last'.a1)
              \cap LivePages = {}]_vars

\* the whole pages of [start, start + size), by division: the first page
\* boundary at or above start, the last at or below start + size.
FirstPage(start, page_size) ==
    ((start + page_size - 1) \div page_size) * page_size

LastPage(start, size, page_size) == ((start + size) \div page_size) * page_size

WholePages(start, size, page_size) ==
    (LastPage(start, size, page_size) - FirstPage(start, page_size))
        \div page_size

\* the largest multiple of MAX_ALIGN_1GB at or below addr.
Below1G(addr) == (addr \div MAX_ALIGN_1GB) * MAX_ALIGN_1GB

\* C23 as stated: init(start, size) sets total_pages to the whole pages of
\* the span, base to the largest 1 GiB-aligned address <= start, and marks
\* free exactly the total_pages indices from (align_up(start) - base) /
\* page_size, all below the capacity.
Counter23_InitAsStated ==
    last.op = "init" =>
        LET ps == last.pre.page_size
            n == WholePages(last.a1, last.a2, ps)
            first == (FirstPage(last.a1, ps) - Below1G(last.a1)) \div ps
        IN  /\ last.panic = ""
            /\ ba.total_pages = n
            /\ ba.base = Below1G(last.a1)
            /\ first + n <= SegCap
            /\ FreePages(ba) = FreePages(last.pre) \cup Span(first, first + n)

\* C23, amended: for a span of at least one whole page whose indices end
\* within the capacity, init sets total_pages to the whole pages of the
\* span, base to the largest 1 GiB-aligned address at or below the first
\* page boundary of the span, and marks free exactly those indices; for
\* any other span it aborts or marks nothing.
Claim23_InitWithinCapacity ==
    last.op = "init" =>
        LET ps == last.pre.page_size
            n == WholePages(last.a1, last.a2, ps)
            b == Below1G(FirstPage(last.a1, ps))
            first == (FirstPage(last.a1, ps) - b) \div ps
        IN  IF n >= 1 /\ first + n <= SegCap
            THEN /\ last.panic = ""
                 /\ ba.total_pages = n
                 /\ ba.base = b
                 /\ FreePages(ba) =
                        FreePages(last.pre) \cup Span(first, first + n)
                 /\ ba.used_pages = last.pre.used_pages
                 /\ ba.allocated_bitset = last.pre.allocated_bitset
            ELSE last.panic # "" \/ FreePages(ba) = FreePages(last.pre)

\* init of a span that starts three bytes below a 1 GiB boundary, with
\* pages of four bytes: base is the boundary, above start.
Witness23_AcrossBoundary ==
    /\ last.op = "init" /\ last.panic = ""
    /\ last.a1 = MAX_ALIGN_1GB - 3 /\ last.pre.page_size = 4
    /\ ba.base = MAX_ALIGN_1GB /\ ba.total_pages >= 1
    /\ 0 \in FreePages(ba)

\* C25: a default leaf or cascade is empty: test(i) is false for every i in
\* 0 .. CAP - 1, is_empty() is true and alloc() returns None, as long as no
\* insert or dealloc has declared an index free.
Claim25_DefaultIsEmpty ==
    /\ (lv \in Levels /\ ba = BaDefault(lv)) =>
        /\ BaIsEmpty(lv, ba)
        /\ \A i \in 0 .. Cap(lv) - 1 : ~BaTest(lv, ba, i)
        /\ BaAlloc(lv, ba).res = None
        /\ BaAlloc(lv, ba).st = ba
    /\ (lv \in Levels /\ last.op = "alloc" /\ last.pre = BaDefault(lv)) =>
        (last.res = None /\ ba = last.pre)

\* alloc() on the default three-level tree returned None.
Witness25_AllocOnDefault ==
    /\ lv = "seg" /\ ba = BaDefault(lv)
    /\ last.op = "alloc" /\ last.pre = BaDefault(lv) /\ last.res = None

\* ===================================================== run queue (run_queue.rs)

\* RUN_QUEUE_SIZE, scaled from 64 slots.
RUN_QUEUE_SIZE == 2

\* calls of insert and of pop made in one run.
MaxInserts == 3

MaxPops == 2

Slots == 0 .. RUN_QUEUE_SIZE - 1

\* EqTaskQueue::new: every slot None, the three counters zero.
QueueNew ==
    [queue |-> [i \in Slots |-> None], head |-> 0, tail |-> 0, size |-> 0]

\* the processes that call insert and the processes that call pop.
Inserters == {"i1", "i2"}

Poppers == {"p1", "p2"}

\* one dispatcher and one consumer, or two of each.
ProcSets == {{"i1", "p1"}, Inserters \cup Poppers}

\* a process between calls, before its first call.
Idle ==
    [pc |-> "idle", size |-> 0, idx |-> 0, task |-> None,
     ret |-> "", val |-> None, cas |-> FALSE, over |-> FALSE]

\* mutant of IsFull: the queue is never found full.
IsFullNever(size) == FALSE

\* insert: size == RUN_QUEUE_SIZE.
IsFull(size) == size = RUN_QUEUE_SIZE

\* pop: size == 0.
IsEmptySize(size) == size = 0

\* fetch_add(1) % RUN_QUEUE_SIZE: the slot of a ticket of head or tail.
SlotOf(ticket) == ticket % RUN_QUEUE_SIZE

InitQueue ==
    /\ lv = "queue"
    /\ ba = QueueNew
    /\ \E ps \in ProcSets :
        last = [procs |-> ps, proc |-> [p \in Inserters \cup Poppers |-> Idle],
                calls |-> 0, pops |-> 0, inserted |-> <<>>, popped |-> <<>>]

Pc(p) == last.proc[p].pc

SetProc(p, rec) == [last.proc EXCEPT ![p] = rec]

\* get_task_num: the number of tasks the queue reports.
GetTaskNum(q) == q.size

\* insert, the load of size and the test for a full queue; a full queue
\* returns Err(task).
InsertLoad(p, task) ==
    LET size == ba.size IN
    IF IsFull(size)
    THEN [Idle EXCEPT !.size = size, !.task = task, !.ret = "Err",
                      !.val = task]
    ELSE [Idle EXCEPT !.pc = "cas", !.size = size, !.task = task]

\* a process enters insert(task) with the next task and loads size.
InsertCall(p) ==
    /\ p \in last.procs /\ p \in Inserters
    /\ Pc(p) = "idle"
    /\ last.calls < MaxInserts
    /\ last' = [last EXCEPT !.proc = SetProc(p, InsertLoad(p, last.calls + 1)),
                            !.calls = last.calls + 1]
    /\ UNCHANGED <<lv, ba>>

\* the loop of insert comes round after a failed compare_exchange.
InsertRetry(p) ==
    /\ p \in Inserters /\ Pc(p) = "load"
    /\ last' = [last EXCEPT
                   !.proc = SetProc(p, InsertLoad(p, last.proc[p].task))]
    /\ UNCHANGED <<lv, ba>>

\* size.compare_exchange(size, size + 1).
InsertCas(p) ==
    /\ p \in Inserters /\ Pc(p) = "cas"
    /\ IF ba.size = last.proc[p].size
       THEN /\ ba' = [ba EXCEPT !.size = ba.size + 1]
            /\ last' = [last EXCEPT !.proc = SetProc(p,
                           [last.proc[p] EXCEPT !.pc = "fetch",
                                                !.cas = TRUE])]
       ELSE /\ ba' = ba
            /\ last' = [last EXCEPT !.proc = SetProc(p,
                           [last.proc[p] EXCEPT !.pc = "load"])]
    /\ UNCHANGED lv

\* tail.fetch_add(1) % RUN_QUEUE_SIZE.
InsertFetch(p) ==
    /\ p \in Inserters /\ Pc(p) = "fetch"
    /\ ba' = [ba EXCEPT !.tail = ba.tail + 1]
    /\ last' = [last EXCEPT !.proc = SetProc(p,
                   [last.proc[p] EXCEPT !.pc = "write",
                                        !.idx = SlotOf(ba.tail)])]
    /\ UNCHANGED lv

\* queue[tail] = Some(task); return Ok(()).
InsertWrite(p) ==
    /\ p \in Inserters /\ Pc(p) = "write"
    /\ LET me == last.proc[p] IN
       /\ ba' = [ba EXCEPT !.queue[me.idx] = me.task]
       /\ last' = [last EXCEPT
                      !.proc = SetProc(p,
                          [me EXCEPT !.pc = "idle", !.ret = "Ok",
                                     !.over = ba.queue[me.idx] # None]),
                      !.inserted = Append(last.inserted, me.task)]
    /\ UNCHANGED lv

\* pop, the load of size and the test for an empty queue; an empty queue
\* returns None.
PopLoad(p) ==
    LET size == ba.size IN
    IF IsEmptySize(size)
    THEN [Idle EXCEPT !.size = size, !.ret = "None"]
    ELSE [Idle EXCEPT !.pc = "cas", !.size = size]

\* a process enters pop() and loads size.
PopCall(p) ==
    /\ p \in last.procs /\ p \in Poppers
    /\ Pc(p) = "idle"
    /\ last.pops < MaxPops
    /\ last' = [last EXCEPT !.proc = SetProc(p, PopLoad(p)),
                            !.pops = last.pops + 1]
    /\ UNCHANGED <<lv, ba>>

\* the loop of pop comes round after a failed compare_exchange.
PopRetry(p) ==
    /\ p \in Poppers /\ Pc(p) = "load"
    /\ last' = [last EXCEPT !.proc = SetProc(p, PopLoad(p))]
    /\ UNCHANGED <<lv, ba>>

\* size.compare_exchange(size, size - 1).
PopCas(p) ==
    /\ p \in Poppers /\ Pc(p) = "cas"
    /\ IF ba.size = last.proc[p].size
       THEN /\ ba' = [ba EXCEPT !.size = ba.size - 1]
            /\ last' = [last EXCEPT !.proc = SetProc(p,
                           [last.proc[p] EXCEPT !.pc = "fetch",
                                                !.cas = TRUE])]
       ELSE /\ ba' = ba
            /\ last' = [last EXCEPT !.proc = SetProc(p,
                           [last.proc[p] EXCEPT !.pc = "load"])]
    /\ UNCHANGED lv

\* head.fetch_add(1) % RUN_QUEUE_SIZE.
PopFetch(p) ==
    /\ p \in Poppers /\ Pc(p) = "fetch"
    /\ ba' = [ba EXCEPT !.head = ba.head + 1]
    /\ last' = [last EXCEPT !.proc = SetProc(p,
                   [last.proc[p] EXCEPT !.pc = "take",
                                        !.idx = SlotOf(ba.head)])]
    /\ UNCHANGED lv

\* return queue[head].take().
PopTake(p) ==
    /\ p \in Poppers /\ Pc(p) = "take"
    /\ LET me == last.proc[p]
           got == ba.queue[me.idx]
       IN
       /\ ba' = [ba EXCEPT !.queue[me.idx] = None]
       /\ last' = [last EXCEPT
                      !.proc = SetProc(p,
                          [me EXCEPT !.pc = "idle", !.val = got,
                                     !.ret = IF got = None THEN "None"
                                             ELSE "Some"]),
                      !.popped = IF got = None THEN last.popped
                                 ELSE Append(last.popped, got)]
    /\ UNCHANGED lv

NextQueue ==
    \/ \E p \in Inserters : InsertCall(p)
    \/ \E p \in Inserters : InsertRetry(p)
    \/ \E p \in Inserters : InsertCas(p)
    \/ \E p \in Inserters : InsertFetch(p)
    \/ \E p \in Inserters : InsertWrite(p)
    \/ \E p \in Poppers : PopCall(p)
    \/ \E p \in Poppers : PopRetry(p)
    \/ \E p \in Poppers : PopCas(p)
    \/ \E p \in Poppers : PopFetch(p)
    \/ \E p \in Poppers : PopTake(p)

SpecQueue == InitQueue /\ [][NextQueue]_vars

\* ----------------------------------------------------------- claims: run queue

IsPrefix(s, t) ==
    /\ Len(s) <= Len(t)
    /\ \A k \in 1 .. Len(s) : s[k] = t[k]

\* C27: with one inserting and one popping process the tasks pop returned
\* are a prefix of the tasks whose insert returned Ok, in insertion order.
Counter27_Fifo ==
    last.procs = {"i1", "p1"} => IsPrefix(last.popped, last.inserted)

\* C28: a pop whose compare_exchange decremented size from a non-zero value
\* returns Some(task).
Counter28_PopAfterCasIsSome ==
    \A p \in Poppers :
        (last.proc[p].pc = "idle" /\ last.proc[p].cas)
            => last.proc[p].ret = "Some"

\* C29: no two inserts past the compare_exchange write the same slot, no two
\* pops take from the same slot, and no insert overwrites a slot that holds
\* a task.
Counter29_SlotExclusive ==
    /\ \A p, q \in Inserters :
        (p # q /\ Pc(p) = "write" /\ Pc(q) = "write")
            => last.proc[p].idx # last.proc[q].idx
    /\ \A p, q \in Poppers :
        (p # q /\ Pc(p) = "take" /\ Pc(q) = "take")
            => last.proc[p].idx # last.proc[q].idx
    /\ \A p \in Inserters : ~last.proc[p].over

\* --------------------------------------------- claims: the counters of pages

\* C31: in every state reached by alloc_pages, alloc_pages_at, dealloc_pages,
\* increase_segment_at and try_decrease_segment after initialisation,
\* 0 <= used_pages <= total_pages: neither used_pages -= num_pages nor
\* total_pages - used_pages subtracts below zero.
Counter31_UsedWithinTotal ==
    Initialised =>
        /\ last.panic # "overflow"
        /\ ba.used_pages <= ba.total_pages

\* C32: in every reachable state, also after segments were activated or
\* reclaimed, available_pages() is the number of free bits of the cascade.
Counter32_AvailableIsFreeBits ==
    (Initialised /\ last.panic = "") =>
        AvailableIs(ba, Cardinality(FreePages(ba)))

\* ------------------------------------------- claims: failures and empty ranges

\* C33: dealloc_contiguous is all-or-nothing: when it returns false, no bit
\* and no summary bit has changed, also when the range spans several
\* children.
Counter33_DeallocContiguousAllOrNothing ==
    (last.op = "dealloc_contiguous" /\ last.panic = "" /\ ~last.ok) =>
        ba = last.pre

\* C34: dealloc_pages(pos, num_pages) for pages that were never handed out,
\* here pages of inactive segments, whose bits read as used, does not
\* decrement used_pages and makes none of the pages allocatable.
Counter34_DeallocOfForeignPages ==
    (/\ last.op = "dealloc_pages" /\ last.panic # "assert" /\ last.a2 >= 1
     /\ Span(PageIdx(last.pre, last.a1), PageIdx(last.pre, last.a1) + last.a2)
            \cap ActivePages(last.pre) = {})
    => /\ last.panic = ""
       /\ ba.used_pages = last.pre.used_pages
       /\ Span(PageIdx(last.pre, last.a1),
               PageIdx(last.pre, last.a1) + last.a2) \cap FreePages(ba) = {}

\* --------------------------------------------------- claims: segment indexing

\* the pages of [start, start + segment_granularity), as page indices.
PagesAt(a, start) ==
    Span(PageIdx(a, start), PageIdx(a, start) + a.segment_granularity
                                                    \div a.page_size)

\* C35: segment indexing is consistent.  The index init_with_page_size marks
\* active for start, the index increase_segment_at computes for an address
\* and the indices try_decrease_segment passes to segment_is_free all denote
\* the child of the cascade that holds exactly the pages of the segment at
\* that address, also for start at or above MAX_ALIGN_1GB, where base # 0.
Counter35_SegmentIndexing ==
    /\ (last.op = "init_with_page_size" /\ last.panic = "") =>
           /\ \A i \in ba.allocated_bitset :
                  i < SIZE /\ SegmentPages(i) = PagesAt(ba, last.a1)
           /\ ba.allocated_bitset # {}
    /\ (last.op = "increase_segment_at" /\ last.panic = "" /\ last.ok) =>
           \A i \in ba.allocated_bitset \ last.pre.allocated_bitset :
               i < SIZE /\ SegmentPages(i) = PagesAt(ba, last.a1)
    /\ last.op = "try_decrease_segment" => last.panic # "assert"

\* C36: insert(range) and remove(range) with an empty range, start = end <=
\* CAP, complete without aborting and leave every bit and summary bit as it
\* was, for every such start, 0 and the multiples of the child capacity
\* among them.
Counter36_EmptyRangeIsNoOp ==
    (/\ last.op \in {"insert", "remove"}
     /\ last.a1 = last.a2 /\ last.a2 <= Cap(lv))
    => (last.panic = "" /\ ba = last.pre)

\* the segments the latest call deactivated.
Deactivated == last.pre.allocated_bitset \ ba.allocated_bitset

WalkIdle ==
    [op |-> "none", pc |-> "done", panic |-> "", a1 |-> None, size |-> 0,
     align_log2 |-> 0, base |-> 0, offset |-> 0, res |-> None,
     ok |-> FALSE, jumped |-> FALSE, iters |-> 0]

InitWalk ==
    /\ lv \in Levels
    /\ ba = BaDefault(lv)
    /\ last = WalkIdle

\* between two walks the bitmap changes: dealloc(key) frees an index.
WalkDealloc ==
    /\ last.pc = "done"
    /\ \E key \in Keys :
        /\ ba' = BaDealloc(lv, ba, key).st
        /\ ba' # ba
    /\ last' = WalkIdle
    /\ UNCHANGED lv

\* a call of find_contiguous(ba, CAP, size, align_log2) or of
\* check_contiguous(ba, base, CAP, size, align_log2), up to its while loop,
\* on a bitmap not walked yet.
WalkCall ==
    /\ last.op = "none"
    /\ \E size \in 0 .. MaxSize : \E align_log2 \in 0 .. MaxAlignLog2 :
       \/ last' =
            IF Cap(lv) < Pow2(align_log2) \/ BaIsEmpty(lv, ba)
            THEN [WalkIdle EXCEPT !.op = "find_contiguous", !.size = size,
                                  !.align_log2 = align_log2]
            ELSE IF BaNext(lv, ba, 0) = None
            THEN [WalkIdle EXCEPT !.op = "find_contiguous", !.size = size,
                                  !.align_log2 = align_log2]
            ELSE [WalkIdle EXCEPT
                     !.op = "find_contiguous", !.pc = "loop",
                     !.size = size, !.align_log2 = align_log2,
                     !.base = AlignUpLog2(BaNext(lv, ba, 0), align_log2),
                     !.offset = AlignUpLog2(BaNext(lv, ba, 0), align_log2)]
       \/ \E base \in 0 .. Cap(lv) :
          last' =
            IF Cap(lv) < Pow2(align_log2) \/ BaIsEmpty(lv, ba)
            THEN [WalkIdle EXCEPT !.op = "check_contiguous", !.a1 = base,
                                  !.size = size, !.align_log2 = align_log2]
            ELSE IF ~IsAlignedLog2(base, align_log2)
            THEN [WalkIdle EXCEPT !.op = "check_contiguous", !.a1 = base,
                                  !.size = size, !.align_log2 = align_log2]
            ELSE [WalkIdle EXCEPT
                     !.op = "check_contiguous", !.pc = "loop", !.a1 = base,
                     !.size = size, !.align_log2 = align_log2,
                     !.base = base, !.offset = base]
    /\ UNCHANGED <<lv, ba>>

\* the test of the while loop and one iteration of its body.
WalkStep ==
    /\ last.pc = "loop"
    /\ last' =
        IF ~(last.offset < Cap(lv))
        THEN [last EXCEPT !.pc = "done"]
        ELSE IF BaNext(lv, ba, last.offset) = None
        THEN [last EXCEPT !.pc = "done", !.iters = @ + 1]
        ELSE IF BaNext(lv, ba, last.offset) # last.offset
        THEN IF last.op = "check_contiguous"
             THEN [last EXCEPT !.pc = "done", !.iters = @ + 1]
             ELSE IF ~(BaNext(lv, ba, last.offset) > last.offset)
             THEN [last EXCEPT !.pc = "done", !.panic = "assert",
                               !.iters = @ + 1]
             ELSE [last EXCEPT
                      !.base = GapBase(BaNext(lv, ba, last.offset),
                                       last.align_log2),
                      !.offset = GapBase(BaNext(lv, ba, last.offset),
                                         last.align_log2),
                      !.jumped = TRUE, !.iters = @ + 1]
        ELSE IF (last.offset + 1) - last.base = last.size
        THEN [last EXCEPT !.pc = "done", !.offset = @ + 1, !.iters = @ + 1,
                          !.ok = TRUE,
                          !.res = IF last.op = "check_contiguous" THEN None
                                  ELSE last.base]
        ELSE [last EXCEPT !.offset = @ + 1, !.iters = @ + 1]
    /\ UNCHANGED <<lv, ba>>

NextWalk ==
    \/ WalkDealloc
    \/ WalkCall
    \/ WalkStep

SpecWalk == InitWalk /\ [][NextWalk]_vars

\* ---------------------------------------------------- claims: termination

\* C38: find_contiguous and check_contiguous terminate for every free-bit
\* pattern, size and align_log2.  Every iteration of the loop either ends
\* the walk or strictly increases offset; a gap jump moves base and offset
\* to one aligned position above the previous offset; and no walk takes
\* more iterations than the bitmap has bits.
Claim38_WalkTerminates ==
    [][last.pc = "loop" =>
          /\ last'.pc = "loop" =>
                /\ last.offset < Cap(lv)
                /\ last'.offset > last.offset
                /\ last'.base # last.base =>
                      /\ last'.base = last'.offset
                      /\ IsAlignedLog2(last'.base, last.align_log2)
          /\ last'.iters <= Cap(lv)]_vars

\* a find_contiguous that jumped a gap has ended with a run found.
Witness38_FoundAfterGap ==
    /\ last.op = "find_contiguous" /\ last.pc = "done"
    /\ last.jumped /\ last.res # None /\ last.align_log2 > 0

=============================================================================
